---- MODULE Spec2Model ----
(***************************************************************************)
(* Model of the symlink core of dotf: the status classifier and the        *)
(* orchestrator (core/symlinks/manager.rs), the conflict detector and      *)
(* resolver (core/symlinks/conflict.rs) and the backup manifest manager    *)
(* (core/symlinks/backup.rs), over the two FileSystem implementations of   *)
(* the repository: RealFileSystem (core/filesystem/operations.rs) and the  *)
(* in-memory MockFileSystem (traits/filesystem.rs).                        *)
(*                                                                         *)
(* A path is a sequence of components.  A filesystem value is a record     *)
(*   [files : path -> content, directories : set of paths,                 *)
(*    symlinks : path -> link value]                                       *)
(* which is literally the MockFileSystem struct; the real filesystem is    *)
(* the same record with at most one entity per path.  Every filesystem     *)
(* call returns [ok, fs, val]: ok = FALSE is the Err branch.               *)
(***************************************************************************)
EXTENDS Integers, Sequences, FiniteSets, TLC

VARIABLES backend, fs, now, last, steps

vars == <<backend, fs, now, last, steps>>

(***************************************************************************)
(* Bounds of the model.                                                    *)
(***************************************************************************)
MaxSteps == 2
MaxClock == 1
MaxOps == 2
LinkFuel == 2

(***************************************************************************)
(* The path universe.                                                      *)
(***************************************************************************)
RepoA == <<"repo", "a">>
RepoB == <<"repo", "b">>
OtherA == <<"other", "a">>
HomeA == <<"home", "a">>
HomeB == <<"home", "b">>
HomeAChild == <<"home", "a", "x">>
dott_backup_path == <<"home", ".dotf", "backups">>
manifest_path == dott_backup_path \o <<"manifest.json">>

NoPath == <<>>
None == [none |-> TRUE]
Some(v) == [some |-> v]
IsSome(o) == "some" \in DOMAIN o

Parent(p) == SubSeq(p, 1, Len(p) - 1)
FileName(p) == p[Len(p)]
IsPrefix(d, p) == Len(d) < Len(p) /\ SubSeq(p, 1, Len(d)) = d
Prefixes(p) == {SubSeq(p, 1, n) : n \in 1..Len(p)}

MapRemove(m, k) == [x \in (DOMAIN m) \ {k} |-> m[x]]
MapPut(m, k, v) == [x \in (DOMAIN m) \cup {k} |-> IF x = k THEN v ELSE m[x]]
MapRetain(m, keep) == [x \in (DOMAIN m) \cap keep |-> m[x]]

Ok(f, v) == [ok |-> TRUE, fs |-> f, val |-> v]
IoError == "Io"
UserCancelled == "UserCancelled"
AbortedByUser == "Operation: Operation aborted by user"
ConflictsNonInteractive == "Operation: Found conflict(s) but running in non-interactive mode"
NotASymlink == "Operation: Cannot remove: not a symlink"
NoBackupFound == "Operation: No backup found"
MissingSourceFiles == "Config: Missing source files"

\* Err(e): e names the DottError variant (and, for Operation, its message)
Err(f, e) == [ok |-> FALSE, fs |-> f, val |-> e]

\* the ? operator: continue with the Ok value, or return the error
AndThen(r, k(_)) == IF r.ok THEN k(r) ELSE r

\* a match on the result: continue with it, Ok or Err
Then(r, k(_)) == k(r)

HasEntity(f, p) == p \in DOMAIN f.files \/ p \in f.directories \/ p \in DOMAIN f.symlinks

(***************************************************************************)
(* MockFileSystem (traits/filesystem.rs): three independent collections,   *)
(* no call fails except read_to_string and read_link of a missing key.     *)
(***************************************************************************)
Mock_exists(f, p) == Ok(f, HasEntity(f, p))

Mock_create_dir_all(f, p) == Ok([f EXCEPT !.directories = @ \cup {p}], None)

Mock_create_symlink(f, source, target) ==
    Ok([f EXCEPT !.symlinks = MapPut(@, target, source)], None)

Mock_remove_file(f, p) ==
    Ok([f EXCEPT !.files = MapRemove(@, p), !.symlinks = MapRemove(@, p)], None)

Mock_copy_file(f, source, target) ==
    IF source \in DOMAIN f.files
    THEN Ok([f EXCEPT !.files = MapPut(@, target, f.files[source])], None)
    ELSE Ok(f, None)

Mock_read_to_string(f, p) ==
    IF p \in DOMAIN f.files THEN Ok(f, f.files[p]) ELSE Err(f, IoError)

Mock_write(f, p, content) == Ok([f EXCEPT !.files = MapPut(@, p, content)], None)

Mock_is_symlink(f, p) == Ok(f, p \in DOMAIN f.symlinks)

Mock_read_link(f, p) ==
    IF p \in DOMAIN f.symlinks THEN Ok(f, f.symlinks[p]) ELSE Err(f, IoError)

(***************************************************************************)
(* RealFileSystem (core/filesystem/operations.rs) over the operating       *)
(* system's semantics: fs::metadata, fs::copy and File::create follow      *)
(* symlinks, fs::symlink_metadata and fs::remove_file do not.              *)
(***************************************************************************)
RECURSIVE Follow(_, _, _)
\* the path a name resolves to after following symlinks; NoPath on a loop
Follow(f, p, fuel) ==
    IF p \in DOMAIN f.symlinks
    THEN IF fuel = 0 THEN NoPath ELSE Follow(f, f.symlinks[p], fuel - 1)
    ELSE p

IsFileOrDir(f, q) == q # NoPath /\ (q \in DOMAIN f.files \/ q \in f.directories)

Real_exists(f, p) == Ok(f, IsFileOrDir(f, Follow(f, p, LinkFuel)))

Real_create_dir_all(f, p) ==
    IF \E d \in Prefixes(p) : d \in DOMAIN f.files \/ d \in DOMAIN f.symlinks
    THEN Err(f, IoError)
    ELSE Ok([f EXCEPT !.directories = @ \cup Prefixes(p)], None)

\* "Ensure parent directory exists"
Real_ensure_parent(f, p) ==
    IF Len(p) > 1 /\ ~Real_exists(f, Parent(p)).val
    THEN Real_create_dir_all(f, Parent(p))
    ELSE Ok(f, None)

\* tokio::fs::symlink: fails when anything, a dangling symlink included, is at target
Real_symlink(f, source, target) ==
    IF HasEntity(f, target) \/ Parent(target) \notin f.directories
    THEN Err(f, IoError)
    ELSE Ok([f EXCEPT !.symlinks = MapPut(@, target, source)], None)

Real_create_symlink(f, source, target) ==
    AndThen(Real_ensure_parent(f, target), LAMBDA r : Real_symlink(r.fs, source, target))

\* what is left when the directory p and everything below it is removed
WithoutTree(f, p) ==
    [files |-> MapRetain(f.files, {q \in DOMAIN f.files : q # p /\ ~IsPrefix(p, q)}),
     directories |-> {q \in f.directories : q # p /\ ~IsPrefix(p, q)},
     symlinks |-> MapRetain(f.symlinks, {q \in DOMAIN f.symlinks : q # p /\ ~IsPrefix(p, q)})]

Real_remove_file(f, p) ==
    IF ~HasEntity(f, p) THEN Err(f, IoError)
    ELSE IF p \in f.directories
         THEN Ok(WithoutTree(f, p), None)
         ELSE Ok([f EXCEPT !.files = MapRemove(@, p), !.symlinks = MapRemove(@, p)], None)

\* File::create(p) and write_all at the resolved path q: creates or truncates it
Real_create_file_at(f, q, content) ==
    IF q = NoPath \/ q \in f.directories \/ Parent(q) \notin f.directories
    THEN Err(f, IoError)
    ELSE Ok([f EXCEPT !.files = MapPut(@, q, content)], None)

\* fs::copy(source, target) from the resolved source s
Real_copy_from(f, s, target) ==
    IF s = NoPath \/ s \notin DOMAIN f.files THEN Err(f, IoError)
    ELSE Real_create_file_at(f, Follow(f, target, LinkFuel), f.files[s])

Real_copy_file(f, source, target) ==
    AndThen(Real_ensure_parent(f, target),
            LAMBDA r : Real_copy_from(r.fs, Follow(r.fs, source, LinkFuel), target))

\* fs::read_to_string at the resolved path q
Real_read_at(f, q) ==
    IF q # NoPath /\ q \in DOMAIN f.files THEN Ok(f, f.files[q]) ELSE Err(f, IoError)

Real_read_to_string(f, p) == Real_read_at(f, Follow(f, p, LinkFuel))

Real_write(f, p, content) ==
    AndThen(Real_ensure_parent(f, p),
            LAMBDA r : Real_create_file_at(r.fs, Follow(r.fs, p, LinkFuel), content))

Real_is_symlink(f, p) ==
    IF ~HasEntity(f, p) THEN Err(f, IoError) ELSE Ok(f, p \in DOMAIN f.symlinks)

Real_read_link(f, p) ==
    IF p \in DOMAIN f.symlinks THEN Ok(f, f.symlinks[p]) ELSE Err(f, IoError)

(***************************************************************************)
(* The FileSystem trait: dispatch on the implementation b.                 *)
(***************************************************************************)
exists(b, f, p) == IF b = "Real" THEN Real_exists(f, p) ELSE Mock_exists(f, p)

create_dir_all(b, f, p) ==
    IF b = "Real" THEN Real_create_dir_all(f, p) ELSE Mock_create_dir_all(f, p)

create_symlink(b, f, source, target) ==
    IF b = "Real" THEN Real_create_symlink(f, source, target)
    ELSE Mock_create_symlink(f, source, target)

remove_file(b, f, p) == IF b = "Real" THEN Real_remove_file(f, p) ELSE Mock_remove_file(f, p)

copy_file(b, f, source, target) ==
    IF b = "Real" THEN Real_copy_file(f, source, target) ELSE Mock_copy_file(f, source, target)

read_to_string(b, f, p) ==
    IF b = "Real" THEN Real_read_to_string(f, p) ELSE Mock_read_to_string(f, p)

write(b, f, p, content) ==
    IF b = "Real" THEN Real_write(f, p, content) ELSE Mock_write(f, p, content)

is_symlink(b, f, p) == IF b = "Real" THEN Real_is_symlink(f, p) ELSE Mock_is_symlink(f, p)

read_link(b, f, p) == IF b = "Real" THEN Real_read_link(f, p) ELSE Mock_read_link(f, p)

(***************************************************************************)
(* BackupManager (core/symlinks/backup.rs).                                *)
(***************************************************************************)
TicksPerSecond == 2

\* timestamp.format("%Y%m%d_%H%M%S"): the clock reading cut to whole seconds
FormatTimestamp(t) == ToString(t \div TicksPerSecond)

File == [kind |-> "File"]
Directory == [kind |-> "Directory"]
Symlink(target) == [kind |-> "Symlink", target |-> target]

BackupEntry(original_path, backup_path, created_at, file_type) ==
    [original_path |-> original_path, backup_path |-> backup_path,
     created_at |-> created_at, file_type |-> file_type]

BackupManifest_new == [entries |-> <<>>]

\* serde_json::to_string_pretty: the manifest as the set of its key/value members
ToJson(manifest) == {<<k, manifest.entries[k]>> : k \in DOMAIN manifest.entries}

\* serde_json::from_str
FromJson(content) ==
    [entries |-> [k \in {kv[1] : kv \in content} |->
                      (CHOOSE kv \in content : kv[1] = k)[2]]]

\* format!("{}/{}", dott_backup_path(), "<file_name>_<timestamp>")
BackupPath(file_path, t) ==
    dott_backup_path \o <<FileName(file_path) \o "_" \o FormatTimestamp(t)>>

\* the file_type classification of backup_file, given is_symlink's answer
BackupFileType(b, f, file_path, symlink) ==
    IF symlink THEN Symlink(read_link(b, f, file_path).val) ELSE File

backup_file(b, f, t, file_path) ==
    AndThen(create_dir_all(b, f, dott_backup_path), LAMBDA r1 :
    AndThen(is_symlink(b, r1.fs, file_path), LAMBDA r2 :
    AndThen(copy_file(b, r2.fs, file_path, BackupPath(file_path, t)), LAMBDA r3 :
        Ok(r3.fs, BackupEntry(file_path, BackupPath(file_path, t), t,
                              BackupFileType(b, r2.fs, file_path, r2.val))))))

\* restore_from_backup that treats every entry as a plain file
restore_from_backup_as_file(b, f, backup_entry) ==
    copy_file(b, f, backup_entry.backup_path, backup_entry.original_path)

restore_from_backup(b, f, backup_entry) ==
    CASE backup_entry.file_type.kind = "File" ->
             copy_file(b, f, backup_entry.backup_path, backup_entry.original_path)
      [] backup_entry.file_type.kind = "Symlink" ->
             create_symlink(b, f, backup_entry.file_type.target, backup_entry.original_path)
      [] backup_entry.file_type.kind = "Directory" ->
             create_dir_all(b, f, backup_entry.original_path)

load_manifest(b, f) ==
    AndThen(exists(b, f, manifest_path), LAMBDA r1 :
        IF r1.val
        THEN AndThen(read_to_string(b, f, manifest_path), LAMBDA r2 : Ok(f, FromJson(r2.val)))
        ELSE Ok(f, BackupManifest_new))

save_manifest(b, f, manifest) ==
    AndThen(create_dir_all(b, f, dott_backup_path),
            LAMBDA r1 : write(b, r1.fs, manifest_path, ToJson(manifest)))

add_backup_entry(b, f, entry) ==
    AndThen(load_manifest(b, f), LAMBDA r1 :
        save_manifest(b, f, [entries |-> MapPut(r1.val.entries, entry.original_path, entry)]))

get_backup_entry(b, f, original_path) ==
    AndThen(load_manifest(b, f), LAMBDA r1 :
        IF original_path \in DOMAIN r1.val.entries
        THEN Ok(f, Some(r1.val.entries[original_path]))
        ELSE Ok(f, None))

\* remove_backup_entry that forgets the entry and keeps its backup file
remove_backup_entry_keeps_file(b, f, original_path) ==
    AndThen(load_manifest(b, f), LAMBDA r1 :
        save_manifest(b, f, [entries |-> MapRemove(r1.val.entries, original_path)]))

remove_backup_entry(b, f, original_path) ==
    AndThen(load_manifest(b, f), LAMBDA r1 :
    AndThen(IF original_path \in DOMAIN r1.val.entries
            THEN remove_file(b, f, r1.val.entries[original_path].backup_path)
            ELSE Ok(f, None), LAMBDA r2 :
        save_manifest(b, r2.fs, [entries |-> MapRemove(r1.val.entries, original_path)])))

restore_specific_file_from_entry(b, f, original_path, entry) ==
    AndThen(exists(b, f, original_path), LAMBDA r1 :
    AndThen(IF r1.val THEN remove_file(b, f, original_path) ELSE Ok(f, None), LAMBDA r2 :
        restore_from_backup(b, r2.fs, entry)))

restore_specific_backup(b, f, original_path) ==
    AndThen(get_backup_entry(b, f, original_path), LAMBDA r1 :
        IF ~IsSome(r1.val) THEN Err(f, NoBackupFound)
        ELSE AndThen(restore_specific_file_from_entry(b, f, original_path, r1.val.some),
                     LAMBDA r2 : remove_backup_entry(b, r2.fs, original_path)))

\* chrono::Duration::days(days) on the model's clock
TicksPerDay == 86400 * TicksPerSecond

\* the first loop of cleanup_old_backups: the keys older than the cutoff, in the
\* iteration order of the manifest's HashMap
to_remove(manifest, order, cutoff) ==
    SelectSeq(order, LAMBDA path : manifest.entries[path].created_at < cutoff)

RECURSIVE cleanup_remove_loop(_, _, _, _, _)
\* the second loop of cleanup_old_backups from the i-th key to remove
cleanup_remove_loop(b, f, manifest, paths, i) ==
    IF i > Len(paths) THEN Ok(f, None)
    ELSE AndThen(remove_file(b, f, manifest.entries[paths[i]].backup_path),
                 LAMBDA r : cleanup_remove_loop(b, r.fs, manifest, paths, i + 1))

\* t: Utc::now(); order: the iteration order of the manifest's HashMap
cleanup_old_backups(b, f, t, days, order) ==
    AndThen(load_manifest(b, f), LAMBDA r1 :
    AndThen(cleanup_remove_loop(b, f, r1.val,
                                to_remove(r1.val, order, t - days * TicksPerDay), 1),
            LAMBDA r2 :
        save_manifest(b, r2.fs,
            [entries |-> MapRetain(r1.val.entries,
                                   {path \in DOMAIN r1.val.entries :
                                        ~(r1.val.entries[path].created_at
                                            < t - days * TicksPerDay)})])))

RestoreResult(restored_count, failed_restorations) ==
    [restored_count |-> restored_count, failed_restorations |-> failed_restorations]

\* the match on one restoration's outcome in restore_all_backups
CountRestore(acc, r, original_path) ==
    IF r.ok
    THEN RestoreResult(acc.restored_count + 1, acc.failed_restorations)
    ELSE RestoreResult(acc.restored_count, Append(acc.failed_restorations, original_path))

RECURSIVE restore_all_loop(_, _, _, _, _, _)
\* the for loop of restore_all_backups from the i-th key of the iteration order
restore_all_loop(b, f, manifest, order, i, acc) ==
    IF i > Len(order) THEN Ok(f, acc)
    ELSE Then(restore_specific_file_from_entry(b, f, order[i], manifest.entries[order[i]]),
              LAMBDA r : restore_all_loop(b, r.fs, manifest, order, i + 1,
                                          CountRestore(acc, r, order[i])))

\* restore_all_backups clearing the manifest whatever the failures
restore_all_finish_clears(b, r) ==
    AndThen(save_manifest(b, r.fs, BackupManifest_new), LAMBDA r3 : Ok(r3.fs, r.val))

\* "Clear the manifest if all restorations were successful"
restore_all_finish(b, r) ==
    IF r.val.failed_restorations = <<>>
    THEN AndThen(save_manifest(b, r.fs, BackupManifest_new), LAMBDA r3 : Ok(r3.fs, r.val))
    ELSE r

\* order: the iteration order of the manifest's HashMap, any permutation of its keys
restore_all_backups(b, f, order) ==
    AndThen(load_manifest(b, f), LAMBDA r1 :
        IF DOMAIN r1.val.entries = {} THEN Ok(f, RestoreResult(0, <<>>))
        ELSE restore_all_finish(b,
                 restore_all_loop(b, f, r1.val, order, 1, RestoreResult(0, <<>>))))

(***************************************************************************)
(* The Prompt collaborator: select() pops the next queued response and     *)
(* fails on an empty queue (MockPrompt).  pr = [queue, asked, decisions]   *)
(* carries the queue together with two history fields: the number of       *)
(* prompts issued and the resolutions handed to resolve_conflict.          *)
(* Calls that may prompt return [ok, fs, pr, val].                         *)
(***************************************************************************)
PromptState(queue) == [queue |-> queue, asked |-> 0, decisions |-> <<>>]

select(pr) ==
    IF pr.queue = <<>>
    THEN [ok |-> FALSE, val |-> UserCancelled, pr |-> [pr EXCEPT !.asked = @ + 1]]
    ELSE [ok |-> TRUE, val |-> Head(pr.queue),
          pr |-> [pr EXCEPT !.queue = Tail(@), !.asked = @ + 1]]

ROk(f, pr, v) == [ok |-> TRUE, fs |-> f, pr |-> pr, val |-> v]
RErr(f, pr, e) == [ok |-> FALSE, fs |-> f, pr |-> pr, val |-> e]

\* the ? operator on a filesystem-level result, inside a call that may prompt
Try(r, pr, k(_)) == IF r.ok THEN k(r) ELSE RErr(r.fs, pr, r.val)

\* the ? operator on the result of a call that may prompt
AndThenP(r, k(_)) == IF r.ok THEN k(r) ELSE r

(***************************************************************************)
(* ConflictResolver (core/symlinks/conflict.rs).                           *)
(***************************************************************************)
ConflictInfo(target_path, source_path, existing_is_symlink, existing_target) ==
    [target_path |-> target_path, source_path |-> source_path,
     existing_is_symlink |-> existing_is_symlink, existing_target |-> existing_target]

\* conflict_of that takes any symlink at the target for no conflict
conflict_of_any_link(source_path, target_path, existing_is_symlink, existing_target) ==
    IF IsSome(existing_target)
    THEN None
    ELSE Some(ConflictInfo(target_path, source_path, existing_is_symlink, existing_target))

\* "If it's already a symlink pointing to the same source, no conflict"
conflict_of(source_path, target_path, existing_is_symlink, existing_target) ==
    IF IsSome(existing_target) /\ existing_target.some = source_path
    THEN None
    ELSE Some(ConflictInfo(target_path, source_path, existing_is_symlink, existing_target))

check_conflict(b, f, source_path, target_path) ==
    AndThen(exists(b, f, target_path), LAMBDA r1 :
        IF ~r1.val THEN Ok(f, None)
        ELSE AndThen(is_symlink(b, f, target_path), LAMBDA r2 :
                 IF r2.val
                 THEN AndThen(read_link(b, f, target_path), LAMBDA r3 :
                          Ok(f, conflict_of(source_path, target_path, TRUE, Some(r3.val))))
                 ELSE Ok(f, conflict_of(source_path, target_path, FALSE, None))))

remove_existing(b, f, path) ==
    AndThen(is_symlink(b, f, path), LAMBDA r1 : remove_file(b, f, path))

\* the Backup arm of resolve_conflict
resolve_backup(b, f, t, pd, conflict) ==
    Try(backup_file(b, f, t, conflict.target_path), pd, LAMBDA r1 :
    Try(remove_existing(b, r1.fs, conflict.target_path), pd, LAMBDA r2 :
    Try(add_backup_entry(b, r2.fs, r1.val), pd, LAMBDA r3 :
        ROk(r3.fs, pd, Some(r1.val)))))

\* the match of resolve_conflict with Abort failing only after the target is cleared
resolve_with_late_abort(b, f, t, pd, conflict, resolution) ==
    CASE resolution = "Skip" -> ROk(f, pd, None)
      [] resolution = "Abort" ->
           Try(remove_existing(b, f, conflict.target_path), pd,
               LAMBDA r : RErr(r.fs, pd, AbortedByUser))
      [] resolution = "Overwrite" ->
           Try(remove_existing(b, f, conflict.target_path), pd,
               LAMBDA r : ROk(r.fs, pd, None))
      [] resolution = "Backup" -> resolve_backup(b, f, t, pd, conflict)

\* the match of resolve_conflict with Skip clearing the target as Overwrite does
resolve_with_skip_removes(b, f, t, pd, conflict, resolution) ==
    CASE resolution \in {"Skip", "Overwrite"} ->
           Try(remove_existing(b, f, conflict.target_path), pd,
               LAMBDA r : ROk(r.fs, pd, None))
      [] resolution = "Abort" -> RErr(f, pd, AbortedByUser)
      [] resolution = "Backup" -> resolve_backup(b, f, t, pd, conflict)

\* the match of resolve_conflict; pd is the prompt history with this decision added
resolve_with(b, f, t, pd, conflict, resolution) ==
    CASE resolution = "Skip" -> ROk(f, pd, None)
      [] resolution = "Abort" -> RErr(f, pd, AbortedByUser)
      [] resolution = "Overwrite" ->
           Try(remove_existing(b, f, conflict.target_path), pd,
               LAMBDA r : ROk(r.fs, pd, None))
      [] resolution = "Backup" -> resolve_backup(b, f, t, pd, conflict)

resolve_conflict(b, f, t, pr, conflict, resolution) ==
    resolve_with(b, f, t,
                 [pr EXCEPT !.decisions = Append(@, <<conflict.target_path, resolution>>)],
                 conflict, resolution)

\* the match of resolve_conflict_interactive on the chosen index
ItemResolution(choice) ==
    CASE choice = 0 -> "Skip"
      [] choice = 1 -> "Backup"
      [] choice = 2 -> "Overwrite"
      [] choice = 3 -> "Abort"
      [] OTHER -> "Abort"

resolve_conflict_interactive(b, f, t, pr, conflict) ==
    Then(select(pr), LAMBDA c :
        IF ~c.ok THEN RErr(f, c.pr, c.val)
        ELSE resolve_conflict(b, f, t, c.pr, conflict, ItemResolution(c.val)))

\* push that puts the new element in front
Push_front(backup_entries, val) ==
    IF IsSome(val) THEN <<val.some>> \o backup_entries ELSE backup_entries

\* "if let Some(entry) = ... { backup_entries.push(entry) }"
Push(backup_entries, val) ==
    IF IsSome(val) THEN Append(backup_entries, val.some) ELSE backup_entries

RECURSIVE resolve_each(_, _, _, _, _, _, _, _)
\* the loops of resolve_all_conflicts_interactive from item i: each conflict is
\* resolved by its own prompt (policy "Individual") or with the batch policy
resolve_each(b, f, t, pr, conflicts, policy, i, backup_entries) ==
    IF i > Len(conflicts) THEN ROk(f, pr, backup_entries)
    ELSE AndThenP(IF policy = "Individual"
                  THEN resolve_conflict_interactive(b, f, t, pr, conflicts[i])
                  ELSE resolve_conflict(b, f, t, pr, conflicts[i], policy),
                  LAMBDA r : resolve_each(b, r.fs, t, r.pr, conflicts, policy, i + 1,
                                          Push(backup_entries, r.val)))

\* the match of resolve_all_conflicts_interactive on the chosen index
resolve_all_choice(b, f, t, pr, conflicts, choice) ==
    CASE choice = 0 -> resolve_each(b, f, t, pr, conflicts, "Individual", 1, <<>>)
      [] choice = 1 -> ROk(f, pr, <<>>)
      [] choice = 2 -> resolve_each(b, f, t, pr, conflicts, "Backup", 1, <<>>)
      [] choice = 3 ->
           AndThenP(resolve_each(b, f, t, pr, conflicts, "Overwrite", 1, <<>>),
                    LAMBDA r : ROk(r.fs, r.pr, <<>>))
      [] OTHER -> RErr(f, pr, AbortedByUser)

resolve_all_conflicts_interactive(b, f, t, pr, conflicts) ==
    IF conflicts = <<>> THEN ROk(f, pr, <<>>)
    ELSE Then(select(pr), LAMBDA c :
             IF ~c.ok THEN RErr(f, c.pr, c.val)
             ELSE resolve_all_choice(b, f, t, c.pr, conflicts, c.val))

(***************************************************************************)
(* SymlinkManager (core/symlinks/manager.rs).                              *)
(***************************************************************************)
SymlinkOperation(source_path, target_path) ==
    [source_path |-> source_path, target_path |-> target_path]

SymlinkInfo(operation, status, current_target) ==
    [source_path |-> operation.source_path, target_path |-> operation.target_path,
     status |-> status, current_target |-> current_target]

\* the classification of a target that is a symlink with value current_target
symlink_status(b, f, operation, current_target) ==
    AndThen(exists(b, f, operation.source_path), LAMBDA source_exists :
        IF ~source_exists.val
        THEN Ok(f, SymlinkInfo(operation, "Broken", Some(current_target)))
        ELSE IF current_target = operation.source_path
             THEN Ok(f, SymlinkInfo(operation, "Valid", Some(current_target)))
             ELSE Ok(f, SymlinkInfo(operation, "InvalidTarget", Some(current_target))))

\* get_single_symlink_status that puts the symlink in place when it is missing
get_single_symlink_status_linking(b, f, operation) ==
    IF exists(b, f, operation.target_path).val
    THEN Ok(f, SymlinkInfo(operation, "Valid", None))
    ELSE Ok(create_symlink(b, f, operation.source_path, operation.target_path).fs,
            SymlinkInfo(operation, "Missing", None))

get_single_symlink_status(b, f, operation) ==
    AndThen(exists(b, f, operation.target_path), LAMBDA target_exists :
        IF ~target_exists.val THEN Ok(f, SymlinkInfo(operation, "Missing", None))
        ELSE AndThen(is_symlink(b, f, operation.target_path), LAMBDA symlink :
                 IF ~symlink.val THEN Ok(f, SymlinkInfo(operation, "Conflict", None))
                 ELSE AndThen(read_link(b, f, operation.target_path), LAMBDA current_target :
                          symlink_status(b, f, operation, current_target.val))))

RECURSIVE check_conflicts_loop(_, _, _, _, _)
check_conflicts_loop(b, f, operations, i, conflicts) ==
    IF i > Len(operations) THEN Ok(f, conflicts)
    ELSE AndThen(check_conflict(b, f, operations[i].source_path, operations[i].target_path),
                 LAMBDA r : check_conflicts_loop(b, f, operations, i + 1,
                                                 Push(conflicts, r.val)))

check_conflicts(b, f, operations) == check_conflicts_loop(b, f, operations, 1, <<>>)

\* create_dir_all(parent) followed by create_symlink(source, target)
create_with_parent(b, f, operation) ==
    AndThen(create_dir_all(b, f, Parent(operation.target_path)), LAMBDA r1 :
        create_symlink(b, r1.fs, operation.source_path, operation.target_path))

\* the first test of the creation loop, commented "Skip if there was a conflict
\* that wasn't resolved": a conflict was recorded for this target and the
\* target does not exist now
skip_operation(b, f, conflicts, operation) ==
    /\ \E i \in 1..Len(conflicts) : conflicts[i].target_path = operation.target_path
    /\ ~exists(b, f, operation.target_path).val

\* the creation loop's body without its test that the target does not exist
create_one_unconditional(b, f, conflicts, operation) ==
    IF skip_operation(b, f, conflicts, operation) THEN Ok(f, None)
    ELSE create_with_parent(b, f, operation)

\* the body of the creation loop for one operation
create_one(b, f, conflicts, operation) ==
    IF skip_operation(b, f, conflicts, operation) THEN Ok(f, None)
    ELSE IF ~exists(b, f, operation.target_path).val
         THEN create_with_parent(b, f, operation)
         ELSE Ok(f, None)

RECURSIVE create_all_loop(_, _, _, _, _)
\* the "Create all symlinks" loop of create_symlinks from operation i
create_all_loop(b, f, operations, conflicts, i) ==
    IF i > Len(operations) THEN Ok(f, None)
    ELSE AndThen(create_one(b, f, conflicts, operations[i]),
                 LAMBDA r : create_all_loop(b, r.fs, operations, conflicts, i + 1))

\* resolve_or_fail without the non-interactive failure: conflicts are passed over
resolve_or_fail_lenient(b, f, t, pr, conflicts, interactive) ==
    IF conflicts = <<>> \/ ~interactive THEN ROk(f, pr, <<>>)
    ELSE resolve_all_conflicts_interactive(b, f, t, pr, conflicts)

\* "let backup_entries = if conflicts.is_empty() .. else if interactive .. else return Err"
resolve_or_fail(b, f, t, pr, conflicts, interactive) ==
    IF conflicts = <<>> THEN ROk(f, pr, <<>>)
    ELSE IF interactive THEN resolve_all_conflicts_interactive(b, f, t, pr, conflicts)
    ELSE RErr(f, pr, ConflictsNonInteractive)

\* create_after_check running the creation loop also after a failed resolution
create_despite_failure(b, f, t, pr, operations, interactive, conflicts) ==
    Then(resolve_or_fail(b, f, t, pr, conflicts, interactive), LAMBDA resolved :
        Try(create_all_loop(b, resolved.fs, operations, conflicts, 1), resolved.pr,
            LAMBDA created : IF resolved.ok
                             THEN ROk(created.fs, resolved.pr, resolved.val)
                             ELSE RErr(created.fs, resolved.pr, resolved.val)))

\* create_symlinks once check_conflicts has answered
create_after_check(b, f, t, pr, operations, interactive, conflicts) ==
    AndThenP(resolve_or_fail(b, f, t, pr, conflicts, interactive), LAMBDA resolved :
        Try(create_all_loop(b, resolved.fs, operations, conflicts, 1), resolved.pr,
            LAMBDA created : ROk(created.fs, resolved.pr, resolved.val)))

create_symlinks(b, f, t, pr, operations, interactive) ==
    Try(check_conflicts(b, f, operations), pr, LAMBDA conflicts :
        create_after_check(b, f, t, pr, operations, interactive, conflicts.val))

\* the match of remove_symlinks removing whatever is at the target
remove_one_any(b, f, operation, status) ==
    CASE status \in {"Valid", "Broken", "InvalidTarget", "Modified", "Conflict"} ->
             remove_file(b, f, operation.target_path)
      [] status = "Missing" -> Ok(f, None)

\* the match of remove_symlinks on the status of one operation
remove_one(b, f, operation, status) ==
    CASE status \in {"Valid", "Broken", "InvalidTarget", "Modified"} ->
             remove_file(b, f, operation.target_path)
      [] status = "Missing" -> Ok(f, None)
      [] status = "Conflict" -> Err(f, NotASymlink)

RECURSIVE remove_symlinks_loop(_, _, _, _)
remove_symlinks_loop(b, f, operations, i) ==
    IF i > Len(operations) THEN Ok(f, None)
    ELSE AndThen(get_single_symlink_status(b, f, operations[i]), LAMBDA status :
         AndThen(remove_one(b, f, operations[i], status.val.status), LAMBDA r :
             remove_symlinks_loop(b, r.fs, operations, i + 1)))

remove_symlinks(b, f, operations) == remove_symlinks_loop(b, f, operations, 1)

\* "Create symlink if target was cleared"
create_if_cleared(b, f, operation) ==
    IF ~exists(b, f, operation.target_path).val
    THEN create_with_parent(b, f, operation)
    ELSE Ok(f, None)

\* the Conflict arm of repair_symlinks
repair_conflict(b, f, t, pr, operation) ==
    Try(check_conflict(b, f, operation.source_path, operation.target_path), pr,
        LAMBDA conflict :
        IF ~IsSome(conflict.val) THEN ROk(f, pr, None)
        ELSE AndThenP(resolve_conflict_interactive(b, f, t, pr, conflict.val.some),
                      LAMBDA r :
                 Try(create_if_cleared(b, r.fs, operation), r.pr,
                     LAMBDA c : ROk(c.fs, r.pr, r.val))))

\* the Broken | InvalidTarget arm that removes the symlink and stops there
repair_recreate_removes(b, f, operation) == remove_file(b, f, operation.target_path)

\* the Broken | InvalidTarget arm: "Remove and recreate"
repair_recreate(b, f, operation) ==
    AndThen(remove_file(b, f, operation.target_path), LAMBDA r1 :
        create_symlink(b, r1.fs, operation.source_path, operation.target_path))

\* the match of repair_symlinks on the status of one operation
repair_one(b, f, t, pr, operation, status) ==
    CASE status \in {"Valid", "Modified"} -> ROk(f, pr, None)
      [] status = "Missing" ->
           Try(create_with_parent(b, f, operation), pr, LAMBDA r : ROk(r.fs, pr, None))
      [] status \in {"Broken", "InvalidTarget"} ->
           Try(repair_recreate(b, f, operation), pr, LAMBDA r : ROk(r.fs, pr, None))
      [] status = "Conflict" -> repair_conflict(b, f, t, pr, operation)

RECURSIVE repair_symlinks_loop(_, _, _, _, _, _, _)
repair_symlinks_loop(b, f, t, pr, operations, i, backup_entries) ==
    IF i > Len(operations) THEN ROk(f, pr, backup_entries)
    ELSE Try(get_single_symlink_status(b, f, operations[i]), pr, LAMBDA status :
         AndThenP(repair_one(b, f, t, pr, operations[i], status.val.status), LAMBDA r :
             repair_symlinks_loop(b, r.fs, t, r.pr, operations, i + 1,
                                  Push(backup_entries, r.val))))

repair_symlinks(b, f, t, pr, operations) ==
    repair_symlinks_loop(b, f, t, pr, operations, 1, <<>>)

(***************************************************************************)
(* The state machine.  backend is the FileSystem implementation in use,    *)
(* fs the filesystem (the persisted manifest is one of its files), now the *)
(* clock Utc::now() reads.  last is what the caller holds of the call that *)
(* has just returned: the operation, its arguments, the filesystem it      *)
(* started from, its result and the prompt history; Return drops it.       *)
(* steps counts the calls made.                                            *)
(***************************************************************************)
Declarations ==
    {SymlinkOperation(RepoA, HomeA), SymlinkOperation(RepoB, HomeB),
     SymlinkOperation(RepoB, HomeA)}

\* the declaration lists handed to the manager: distinct declarations, in any order
OperationLists ==
    {ops \in UNION {[1..n -> Declarations] : n \in 1..MaxOps} :
        \A i, j \in 1..Len(ops) : i # j => ops[i] # ops[j]}

SeqsUpTo(S, n) == UNION {[1..k -> S] : k \in 0..n}

\* the response queues a batch of n conflicts can consume: none (the prompt
\* fails), a batch policy, or Individual followed by up to n item choices
BatchQueues(n) ==
    {<<>>} \cup {<<c>> : c \in 1..4} \cup {<<0>> \o q : q \in SeqsUpTo(0..3, n)}

ItemQueues(n) == SeqsUpTo(0..3, n)

Idle == [op |-> "idle"]

\* the caller's record of a call that returned r
Called(op, args, pre, r) ==
    [op |-> op, args |-> args, pre |-> pre, ok |-> r.ok, val |-> r.val]

\* the same for a call that may prompt
CalledP(op, args, pre, r) ==
    [op |-> op, args |-> args, pre |-> pre, ok |-> r.ok, val |-> r.val,
     asked |-> r.pr.asked, decisions |-> r.pr.decisions]

Returns(op, args, r) ==
    /\ fs' = r.fs
    /\ last' = Called(op, args, fs, r)
    /\ steps' = steps + 1
    /\ UNCHANGED <<backend, now>>

ReturnsP(op, args, r) ==
    /\ fs' = r.fs
    /\ last' = CalledP(op, args, fs, r)
    /\ steps' = steps + 1
    /\ UNCHANGED <<backend, now>>

BaseDirs == {<<"home">>, <<"repo">>, <<"other">>}

InitFiles(ra, a, bb) ==
    (RepoB :> "rb") @@ (OtherA :> "oa")
    @@ (IF ra THEN (RepoA :> "ra") ELSE <<>>)
    @@ (IF a = "file" THEN (HomeA :> "c1") ELSE <<>>)
    @@ (IF a = "dir" THEN (HomeAChild :> "cx") ELSE <<>>)
    @@ (IF bb = "file" THEN (HomeB :> "c2") ELSE <<>>)

InitLinks(a, bb) ==
    (IF a = "linkRepo" THEN (HomeA :> RepoA) ELSE <<>>)
    @@ (IF a = "linkOther" THEN (HomeA :> OtherA) ELSE <<>>)
    @@ (IF bb = "link" THEN (HomeB :> RepoB) ELSE <<>>)

\* the filesystems a run starts from: each source present or not, each target
\* absent, a plain file, a directory with a file in it, or a symlink
InitFileSystems ==
    {[files |-> InitFiles(ra, a, bb),
      directories |-> BaseDirs \cup (IF a = "dir" THEN {HomeA} ELSE {}),
      symlinks |-> InitLinks(a, bb)] :
        ra \in BOOLEAN, a \in {"absent", "file", "dir", "linkRepo", "linkOther"},
        bb \in {"absent", "file", "link"}}

Init ==
    /\ backend \in {"Real", "Mock"}
    /\ fs \in InitFileSystems
    /\ now = 0
    /\ last = Idle
    /\ steps = 0

CanCall == last = Idle /\ steps < MaxSteps

\* time passes between two calls; before the first call the clock reads 0
Tick ==
    /\ last = Idle
    /\ 0 < steps /\ steps < MaxSteps
    /\ now < MaxClock
    /\ now' = now + 1
    /\ UNCHANGED <<backend, fs, last, steps>>

Return ==
    /\ last # Idle
    /\ last' = Idle
    /\ UNCHANGED <<backend, fs, now, steps>>

\* the queues worth offering a create_symlinks call that found these conflicts
CreateQueues(interactive, conflicts) ==
    IF interactive /\ conflicts.ok THEN BatchQueues(Len(conflicts.val)) ELSE {<<>>}

CreateSymlinks ==
    /\ CanCall
    /\ \E operations \in OperationLists, interactive \in BOOLEAN :
         \E queue \in CreateQueues(interactive, check_conflicts(backend, fs, operations)) :
            ReturnsP("create_symlinks",
                     [operations |-> operations, interactive |-> interactive,
                      queue |-> queue],
                     create_symlinks(backend, fs, now, PromptState(queue),
                                     operations, interactive))

\* the queues worth offering a repair_symlinks call: it prompts at most once
\* for each declaration whose target is there and is not a symlink
RepairQueues(operations) ==
    ItemQueues(Cardinality({i \in 1..Len(operations) :
                               /\ HasEntity(fs, operations[i].target_path)
                               /\ operations[i].target_path \notin DOMAIN fs.symlinks}))

RepairSymlinks ==
    /\ CanCall
    /\ \E operations \in OperationLists :
         \E queue \in RepairQueues(operations) :
            ReturnsP("repair_symlinks", [operations |-> operations, queue |-> queue],
                     repair_symlinks(backend, fs, now, PromptState(queue), operations))

RemoveSymlinks ==
    /\ CanCall
    /\ \E operations \in OperationLists :
         Returns("remove_symlinks", [operations |-> operations],
                 remove_symlinks(backend, fs, operations))

GetSingleSymlinkStatus ==
    /\ CanCall
    /\ \E operation \in Declarations :
         Returns("get_single_symlink_status", [operation |-> operation],
                 get_single_symlink_status(backend, fs, operation))

CheckConflict ==
    /\ CanCall
    /\ \E operation \in Declarations :
         Returns("check_conflict", [operation |-> operation],
                 check_conflict(backend, fs, operation.source_path, operation.target_path))

\* a direct call of resolve_conflict on a conflict check_conflict has reported
ResolveConflict ==
    /\ CanCall
    /\ \E operation \in Declarations,
          resolution \in {"Skip", "Backup", "Overwrite", "Abort"} :
         /\ IsSome(check_conflict(backend, fs, operation.source_path,
                                  operation.target_path).val)
         /\ ReturnsP("resolve_conflict",
                     [conflict |-> check_conflict(backend, fs, operation.source_path,
                                                  operation.target_path).val.some,
                      resolution |-> resolution],
                     resolve_conflict(backend, fs, now, PromptState(<<>>),
                                      check_conflict(backend, fs, operation.source_path,
                                                     operation.target_path).val.some,
                                      resolution))

\* the caller's record of restore_from_backup on the entry the last call returned
Restored(r) ==
    [op |-> "restore_from_backup", args |-> [entry |-> last.val.some],
     pre |-> fs, origin |-> last.pre, ok |-> r.ok, val |-> r.val]

\* restore_from_backup on the entry a Backup resolution has just returned
RestoreFromBackup ==
    /\ last.op = "resolve_conflict" /\ last.ok /\ IsSome(last.val)
    /\ steps < MaxSteps
    /\ fs' = restore_from_backup(backend, fs, last.val.some).fs
    /\ last' = Restored(restore_from_backup(backend, fs, last.val.some))
    /\ steps' = steps + 1
    /\ UNCHANGED <<backend, now>>

Next ==
    \/ Tick
    \/ Return
    \/ CreateSymlinks
    \/ RepairSymlinks
    \/ RemoveSymlinks
    \/ GetSingleSymlinkStatus
    \/ CheckConflict
    \/ ResolveConflict
    \/ RestoreFromBackup

Spec == Init /\ [][Next]_vars

(***************************************************************************)
(* The status reports of SymlinkManager over a declaration list, and the   *)
(* Repository collaborator (traits/repository.rs) that                     *)
(* get_symlink_status_with_changes asks about each Valid declaration.      *)
(***************************************************************************)
RepositoryError == "Repository"

repo_path == <<"repo">>

RECURSIVE get_symlink_status_loop(_, _, _, _, _)
\* the for loop of get_symlink_status from operation i
get_symlink_status_loop(b, f, operations, i, statuses) ==
    IF i > Len(operations) THEN Ok(f, statuses)
    ELSE AndThen(get_single_symlink_status(b, f, operations[i]), LAMBDA status :
             get_symlink_status_loop(b, status.fs, operations, i + 1,
                                     Append(statuses, status.val)))

get_symlink_status(b, f, operations) == get_symlink_status_loop(b, f, operations, 1, <<>>)

\* source_path.strip_prefix(repo_path), trimmed of its leading '/', for a source
\* under repo_path; the source path itself otherwise
relative_source(source_path, root) ==
    IF Len(source_path) >= Len(root) /\ SubSeq(source_path, 1, Len(root)) = root
    THEN SubSeq(source_path, Len(root) + 1, Len(source_path))
    ELSE source_path

\* Repository::is_file_modified: the collaborator's answer for a file, one of
\* "modified", "clean" and "error"
is_file_modified(repository, f, file_path) ==
    CASE repository[file_path] = "modified" -> Ok(f, TRUE)
      [] repository[file_path] = "clean" -> Ok(f, FALSE)
      [] OTHER -> Err(f, RepositoryError)

\* the match on the collaborator's answer that reports Modified whenever the
\* answer is not Ok(false)
with_changes_eager(status, answer) ==
    IF status.status = "Valid" /\ ~(answer.ok /\ ~answer.val)
    THEN [status EXCEPT !.status = "Modified"]
    ELSE status

\* "If symlink is valid, check for local changes": the match on the answer
with_changes(status, answer) ==
    IF status.status = "Valid" /\ answer.ok /\ answer.val
    THEN [status EXCEPT !.status = "Modified"]
    ELSE status

RECURSIVE get_symlink_status_with_changes_loop(_, _, _, _, _, _, _)
get_symlink_status_with_changes_loop(b, f, operations, repository, root, i, statuses) ==
    IF i > Len(operations) THEN Ok(f, statuses)
    ELSE AndThen(get_single_symlink_status(b, f, operations[i]), LAMBDA status :
             get_symlink_status_with_changes_loop(
                 b, status.fs, operations, repository, root, i + 1,
                 Append(statuses,
                        with_changes(status.val,
                                     is_file_modified(repository, status.fs,
                                         relative_source(operations[i].source_path,
                                                         root))))))

get_symlink_status_with_changes(b, f, operations, repository, root) ==
    get_symlink_status_with_changes_loop(b, f, operations, repository, root, 1, <<>>)

\* the collaborators: an answer for each file of the repository
Repositories == [{<<"a">>, <<"b">>} -> {"modified", "clean", "error"}]

GetSymlinkStatus ==
    /\ CanCall
    /\ \E operations \in OperationLists :
         Returns("get_symlink_status", [operations |-> operations],
                 get_symlink_status(backend, fs, operations))

GetSymlinkStatusWithChanges ==
    /\ CanCall
    /\ \E operations \in OperationLists, repository \in Repositories :
         Returns("get_symlink_status_with_changes",
                 [operations |-> operations, repository |-> repository],
                 get_symlink_status_with_changes(backend, fs, operations,
                                                 repository, repo_path))

CheckConflicts ==
    /\ CanCall
    /\ \E operations \in OperationLists :
         Returns("check_conflicts", [operations |-> operations],
                 check_conflicts(backend, fs, operations))

(***************************************************************************)
(* SymlinkManager::validate_sources and the part of                        *)
(* InstallService::install_config (services/install_service.rs) that it    *)
(* gates, on filesystems where either declared source may be missing.      *)
(* operations is what create_symlink_operations made of the configuration. *)
(***************************************************************************)
RECURSIVE validate_sources_loop(_, _, _, _, _)
\* the for loop of validate_sources from operation i
validate_sources_loop(b, f, operations, i, missing_sources) ==
    IF i > Len(operations) THEN Ok(f, missing_sources)
    ELSE AndThen(exists(b, f, operations[i].source_path), LAMBDA r :
             validate_sources_loop(b, f, operations, i + 1,
                                   IF r.val THEN missing_sources
                                   ELSE Append(missing_sources, operations[i].source_path)))

\* validate_sources that reports nothing missing
validate_sources_lenient(b, f, operations) == Ok(f, <<>>)

validate_sources(b, f, operations) == validate_sources_loop(b, f, operations, 1, <<>>)

install_config(b, f, t, pr, operations) ==
    IF operations = <<>> THEN ROk(f, pr, <<>>)
    ELSE Try(validate_sources(b, f, operations), pr, LAMBDA missing_sources :
             IF missing_sources.val # <<>> THEN RErr(f, pr, MissingSourceFiles)
             ELSE create_symlinks(b, f, t, pr, operations, TRUE))

InstallFileSystems ==
    InitFileSystems \cup {[f EXCEPT !.files = MapRemove(@, RepoB)] : f \in InitFileSystems}

InitInstall ==
    /\ backend \in {"Real", "Mock"}
    /\ fs \in InstallFileSystems
    /\ now = 0
    /\ last = Idle
    /\ steps = 0

ValidateSources ==
    /\ CanCall
    /\ \E operations \in OperationLists :
         Returns("validate_sources", [operations |-> operations],
                 validate_sources(backend, fs, operations))

InstallConfig ==
    /\ CanCall
    /\ \E operations \in OperationLists \cup {<<>>} :
         \E queue \in CreateQueues(TRUE, check_conflicts(backend, fs, operations)) :
            ReturnsP("install_config", [operations |-> operations, queue |-> queue],
                     install_config(backend, fs, now, PromptState(queue), operations))

NextInstall ==
    \/ Tick
    \/ Return
    \/ ValidateSources
    \/ InstallConfig

SpecInstall == InitInstall /\ [][NextInstall]_vars

\* the read-only operations, with a mutating call between them
NextStatus ==
    \/ Tick
    \/ Return
    \/ GetSingleSymlinkStatus
    \/ GetSymlinkStatus
    \/ GetSymlinkStatusWithChanges
    \/ CheckConflict
    \/ CheckConflicts
    \/ ValidateSources
    \/ RemoveSymlinks

SpecStatus == InitInstall /\ [][NextStatus]_vars

(***************************************************************************)
(* The ConflictResolver and BackupManager calls made directly: the batch   *)
(* resolution of the conflicts check_conflicts has reported, the           *)
(* resolution of one conflict, and the backup of one path.                 *)
(***************************************************************************)
ResolveAllConflictsInteractive ==
    /\ CanCall
    /\ \E operations \in OperationLists :
         \E conflicts \in {check_conflicts(backend, fs, operations)} :
            /\ conflicts.ok
            /\ \E queue \in BatchQueues(Len(conflicts.val)) :
                  ReturnsP("resolve_all_conflicts_interactive",
                           [operations |-> operations, conflicts |-> conflicts.val,
                            queue |-> queue],
                           resolve_all_conflicts_interactive(backend, fs, now,
                                                             PromptState(queue),
                                                             conflicts.val))

BackupPaths == {HomeA, HomeB, HomeAChild}

BackupFile ==
    /\ CanCall
    /\ \E file_path \in BackupPaths :
         Returns("backup_file", [file_path |-> file_path, now |-> now],
                 backup_file(backend, fs, now, file_path))

NextResolve ==
    \/ Tick
    \/ Return
    \/ CheckConflicts
    \/ ResolveAllConflictsInteractive
    \/ ResolveConflict
    \/ BackupFile

SpecResolve == Init /\ [][NextResolve]_vars

\* create_symlinks calls alone, each on what an earlier one left
NextCreate ==
    \/ Tick
    \/ Return
    \/ CreateSymlinks
    \/ CheckConflicts

SpecCreate == Init /\ [][NextCreate]_vars

(***************************************************************************)
(* The backup manager on its own, started from filesystems that hold a     *)
(* manifest: for each target an optional entry (of a plain file or of a    *)
(* symlink) whose backup file is on disk or missing, and the target itself *)
(* absent, a plain file or a symlink.                                      *)
(***************************************************************************)
Targets == {HomeA, HomeB}

InitEntry(target, e) ==
    BackupEntry(target, BackupPath(target, 0), 0,
                IF e = "Symlink" THEN Symlink(OtherA) ELSE File)

InitManifest(ea, eb) ==
    [entries |-> (IF ea # "none" THEN (HomeA :> InitEntry(HomeA, ea)) ELSE <<>>)
                 @@ (IF eb # "none" THEN (HomeB :> InitEntry(HomeB, eb)) ELSE <<>>)]

InitBackupFiles(ea, pa, oa, eb, pb, ob) ==
    (RepoA :> "ra") @@ (RepoB :> "rb") @@ (OtherA :> "oa")
    @@ (IF ea # "none" \/ eb # "none"
        THEN (manifest_path :> ToJson(InitManifest(ea, eb))) ELSE <<>>)
    @@ (IF ea # "none" /\ pa THEN (BackupPath(HomeA, 0) :> "c1") ELSE <<>>)
    @@ (IF eb # "none" /\ pb THEN (BackupPath(HomeB, 0) :> "c2") ELSE <<>>)
    @@ (IF oa = "file" THEN (HomeA :> "n1") ELSE <<>>)
    @@ (IF ob = "file" THEN (HomeB :> "n2") ELSE <<>>)

InitBackupLinks(oa, ob) ==
    (IF oa = "link" THEN (HomeA :> RepoA) ELSE <<>>)
    @@ (IF ob = "link" THEN (HomeB :> RepoB) ELSE <<>>)

InitBackupFileSystems ==
    {[files |-> InitBackupFiles(ea, pa, oa, eb, pb, ob),
      directories |-> BaseDirs \cup Prefixes(dott_backup_path),
      symlinks |-> InitBackupLinks(oa, ob)] :
        ea \in {"none", "File", "Symlink"}, pa \in BOOLEAN,
        oa \in {"absent", "file", "link"},
        eb \in {"none", "File", "Symlink"}, pb \in BOOLEAN,
        ob \in {"absent", "file", "link"}}

InitBackup ==
    /\ backend \in {"Real", "Mock"}
    /\ fs \in InitBackupFileSystems
    /\ now = 0
    /\ last = Idle
    /\ steps = 0

\* the entries of the persisted manifest
Persisted(b, f) == load_manifest(b, f).val.entries

Orders(S) ==
    {order \in [1..Cardinality(S) -> S] :
        \A i, j \in 1..Cardinality(S) : i # j => order[i] # order[j]}

RestoreAllBackups ==
    /\ CanCall
    /\ \E order \in Orders(DOMAIN Persisted(backend, fs)) :
         Returns("restore_all_backups", [order |-> order],
                 restore_all_backups(backend, fs, order))

\* the paths a caller asks the backup manager about: two with and one without
\* a place in the initial manifests above
ManifestTargets == {HomeA, HomeB, OtherA}

RemoveBackupEntry ==
    /\ CanCall
    /\ \E original_path \in ManifestTargets :
         Returns("remove_backup_entry", [original_path |-> original_path],
                 remove_backup_entry(backend, fs, original_path))

RestoreSpecificBackup ==
    /\ CanCall
    /\ \E original_path \in ManifestTargets :
         Returns("restore_specific_backup", [original_path |-> original_path],
                 restore_specific_backup(backend, fs, original_path))

CleanupDays == {0, 1}

CleanupOldBackups ==
    /\ CanCall
    /\ \E days \in CleanupDays, order \in Orders(DOMAIN Persisted(backend, fs)) :
         Returns("cleanup_old_backups", [days |-> days, order |-> order, now |-> now],
                 cleanup_old_backups(backend, fs, now, days, order))

\* resolve_conflict with Backup on whatever conflicts with a declaration of
\* repo/b at one of the paths
BackupConflict ==
    /\ CanCall
    /\ \E target_path \in ManifestTargets :
         /\ IsSome(check_conflict(backend, fs, RepoB, target_path).val)
         /\ ReturnsP("resolve_conflict",
                     [conflict |-> check_conflict(backend, fs, RepoB, target_path).val.some,
                      resolution |-> "Backup"],
                     resolve_conflict(backend, fs, now, PromptState(<<>>),
                                      check_conflict(backend, fs, RepoB,
                                                     target_path).val.some,
                                      "Backup"))

NextBackup ==
    \/ Tick
    \/ Return
    \/ RestoreAllBackups
    \/ RemoveBackupEntry
    \/ RestoreSpecificBackup
    \/ CleanupOldBackups
    \/ BackupConflict

SpecBackup == InitBackup /\ [][NextBackup]_vars

(***************************************************************************)
(* The same operations started from manifests whose every entry has a      *)
(* backup file of its own on disk.  An entry is a second old or of the     *)
(* current second; home/a and other/a share the file name "a", so their    *)
(* backups of one second would share a backup path, as backup_file names   *)
(* it: no initial manifest holds both.  The targets are absent, a plain    *)
(* file or a symlink to repo/a, which is present or not.                   *)
(***************************************************************************)
CreatedAt(age) == IF age = "old" THEN 0 - TicksPerSecond ELSE 0

ConsistentEntry(target, age, file_type) ==
    BackupEntry(target, BackupPath(target, CreatedAt(age)), CreatedAt(age), file_type)

ConsistentManifest(ea, eb, eo) ==
    [entries |-> (IF ea # "none" THEN (HomeA :> ConsistentEntry(HomeA, ea, File)) ELSE <<>>)
                 @@ (IF eb # "none"
                     THEN (HomeB :> ConsistentEntry(HomeB, eb, Symlink(RepoB))) ELSE <<>>)
                 @@ (IF eo # "none"
                     THEN (OtherA :> ConsistentEntry(OtherA, eo, File)) ELSE <<>>)]

ConsistentFiles(ea, eb, eo, ra, oa) ==
    (RepoB :> "rb") @@ (OtherA :> "oa")
    @@ (IF ra THEN (RepoA :> "ra") ELSE <<>>)
    @@ (IF ea # "none" \/ eb # "none" \/ eo # "none"
        THEN (manifest_path :> ToJson(ConsistentManifest(ea, eb, eo))) ELSE <<>>)
    @@ (IF eo # "none" THEN (BackupPath(OtherA, CreatedAt(eo)) :> "c3") ELSE <<>>)
    @@ (IF ea # "none" THEN (BackupPath(HomeA, CreatedAt(ea)) :> "c1") ELSE <<>>)
    @@ (IF eb # "none" THEN (BackupPath(HomeB, CreatedAt(eb)) :> "rb") ELSE <<>>)
    @@ (IF oa = "file" THEN (HomeA :> "n1") ELSE <<>>)

ConsistentFileSystems ==
    {[files |-> ConsistentFiles(ages[1], eb, ages[2], ra, oa),
      directories |-> BaseDirs \cup Prefixes(dott_backup_path),
      symlinks |-> (IF oa = "link" THEN (HomeA :> RepoA) ELSE <<>>)
                   @@ (IF ob = "link" THEN (HomeB :> RepoA) ELSE <<>>)] :
        ages \in {a \in {"none", "old", "new"} \X {"none", "old", "new"} :
                     a[1] = "none" \/ a[1] # a[2]},
        eb \in {"none", "old"}, ra \in BOOLEAN,
        oa \in {"absent", "file", "link"}, ob \in {"absent", "link"}}

\* the manager is constructed at any instant of the current second
InitConsistent ==
    /\ backend \in {"Real", "Mock"}
    /\ fs \in ConsistentFileSystems
    /\ now \in 0..MaxClock
    /\ last = Idle
    /\ steps = 0

SpecManifest == InitConsistent /\ [][NextBackup]_vars

(***************************************************************************)
(* Properties.  Each is stated on last, the record of the call that has    *)
(* just returned, and fs, the filesystem it left.                          *)
(***************************************************************************)
\* the conflicts check_conflicts reports for the last call's declarations in
\* the filesystem the call started from
ConflictsBefore == check_conflicts(backend, last.pre, last.args.operations).val

TargetsOf(operations) == {operations[i].target_path : i \in 1..Len(operations)}

DistinctTargets(operations) == Cardinality(TargetsOf(operations)) = Len(operations)

C2_BatchClearedTargetsLinked ==
    (/\ last.op = "create_symlinks"
     /\ last.args.interactive
     /\ DistinctTargets(last.args.operations)
     /\ ConflictsBefore # <<>>
     /\ last.args.queue \in {<<2>>, <<3>>}
     /\ last.ok)
    => \A i \in 1..Len(last.args.operations) :
          /\ last.args.operations[i].target_path \in DOMAIN fs.symlinks
          /\ fs.symlinks[last.args.operations[i].target_path]
                 = last.args.operations[i].source_path

\* what is at path t: its plain-file content, whether it is a directory, its
\* symlink value
EntityAt(f, t) ==
    [file |-> IF t \in DOMAIN f.files THEN Some(f.files[t]) ELSE None,
     dir |-> t \in f.directories,
     link |-> IF t \in DOMAIN f.symlinks THEN Some(f.symlinks[t]) ELSE None]

\* the entity the call found at t is no longer there
Removed(t) == HasEntity(last.pre, t) /\ EntityAt(fs, t) # EntityAt(last.pre, t)

\* the plain file or directory the call found at t is no longer there
NonLinkRemoved(t) ==
    /\ t \notin DOMAIN last.pre.symlinks
    /\ \/ t \in DOMAIN last.pre.files /\ EntityAt(fs, t).file # EntityAt(last.pre, t).file
       \/ t \in last.pre.directories /\ t \notin fs.directories

DecisionsOf(l) == IF "decisions" \in DOMAIN l THEN l.decisions ELSE <<>>

\* an explicit Backup or Overwrite decision was given for t during the last call
Decided(t) ==
    \E k \in 1..Len(DecisionsOf(last)) :
        /\ DecisionsOf(last)[k][1] = t
        /\ DecisionsOf(last)[k][2] \in {"Backup", "Overwrite"}

\* check_conflict reported no conflict for a declaration of t in the last call
NoConflictFor(t) ==
    \E i \in 1..Len(last.args.operations) :
        /\ last.args.operations[i].target_path = t
        /\ ~IsSome(check_conflict(backend, last.pre, last.args.operations[i].source_path,
                                  t).val)

MutatingCalls == {"create_symlinks", "repair_symlinks", "remove_symlinks"}

C4_BackupRestoreRoundTrip ==
    (/\ last.op = "restore_from_backup"
     /\ ~last.args.entry.original_path \in last.origin.directories
     /\ (last.args.entry.original_path \in DOMAIN last.origin.files)
            # (last.args.entry.original_path \in DOMAIN last.origin.symlinks))
    => (/\ last.ok
        /\ EntityAt(fs, last.args.entry.original_path)
               = EntityAt(last.origin, last.args.entry.original_path))

\* a symlink has been backed up, removed and restored
C4_Witness ==
    /\ last.op = "restore_from_backup"
    /\ last.args.entry.file_type.kind = "Symlink"
    /\ last.args.entry.original_path \in DOMAIN last.origin.symlinks
    /\ ~HasEntity(last.pre, last.args.entry.original_path)
    /\ last.args.entry.original_path \in DOMAIN fs.symlinks

\* the calls that hand decisions to resolve_conflict
ResolvingCalls == {"create_symlinks", "repair_symlinks", "resolve_conflict"}

\* the prompts issued when the k-th decision of the last call is taken: the
\* batch prompt of create_symlinks and one prompt per item
PromptsUpTo(k) ==
    CASE last.op = "create_symlinks" -> k + 1
      [] last.op = "repair_symlinks" -> k
      [] last.op = "resolve_conflict" -> 0

\* a Backup or Overwrite decision was given for t before the k-th decision
DecidedBefore(t, k) ==
    \E j \in 1..(k - 1) :
        /\ last.decisions[j][1] = t
        /\ last.decisions[j][2] \in {"Backup", "Overwrite"}

LastIndexOf(operations, t) ==
    CHOOSE i \in 1..Len(operations) :
        /\ operations[i].target_path = t
        /\ \A j \in (i + 1)..Len(operations) : operations[j].target_path # t

\* the targets of the declarations repair_symlinks has yet to reach when it
\* prompts for target t: those after the last declaration of t, less the
\* targets of declarations it has been through
Unreached(operations, t) ==
    {operations[i].target_path : i \in (LastIndexOf(operations, t) + 1)..Len(operations)}
    \ {operations[i].target_path : i \in 1..(LastIndexOf(operations, t) - 1)}

\* targets of the item of the k-th decision and of the items after it
ItemsFrom(k) ==
    CASE last.op = "create_symlinks" ->
           {ConflictsBefore[j].target_path : j \in k..Len(ConflictsBefore)}
      [] last.op = "repair_symlinks" ->
           {last.decisions[k][1]} \cup Unreached(last.args.operations, last.decisions[k][1])
      [] last.op = "resolve_conflict" -> {last.args.conflict.target_path}

\* Abort chosen as the batch policy of an interactive create_symlinks
BatchAborted ==
    /\ last.op = "create_symlinks"
    /\ last.args.interactive
    /\ last.args.queue = <<4>>
    /\ ConflictsBefore # <<>>

\* C5: an Abort decision fails with the operation-aborted error and mutates
\* nothing for the current conflict or a later one: as the batch policy it
\* leaves the filesystem unchanged; for item k it is the last decision and the
\* last prompt, and the targets of items k, k+1, ... are as the call found them
\* (unless an earlier item of the same target was resolved by Backup or Overwrite)
C5_AbortMutatesNothingFurther ==
    /\ BatchAborted
       => (~last.ok /\ last.val = AbortedByUser /\ fs = last.pre /\ last.asked = 1)
    /\ last.op \in ResolvingCalls
       => \A k \in 1..Len(last.decisions) :
             last.decisions[k][2] = "Abort"
             => (/\ k = Len(last.decisions)
                 /\ ~last.ok
                 /\ last.val = AbortedByUser
                 /\ last.asked = PromptsUpTo(k)
                 /\ (k = 1 /\ last.op # "repair_symlinks") => fs = last.pre
                 /\ \A t \in ItemsFrom(k) :
                       ~DecidedBefore(t, k) => EntityAt(fs, t) = EntityAt(last.pre, t))

\* Individual mode: the first conflict was cleared and Abort was chosen for the
\* second, on another target
C5_Witness ==
    /\ last.op = "create_symlinks"
    /\ Len(last.decisions) = 2
    /\ last.decisions[1][2] \in {"Backup", "Overwrite"}
    /\ last.decisions[2][2] = "Abort"
    /\ last.decisions[2][1] # last.decisions[1][1]
    /\ HasEntity(fs, last.decisions[2][1])
    /\ ~last.ok

\* the manifest entries whose backup file is not on disk when the call starts
MissingBackups ==
    {k \in DOMAIN Persisted(backend, last.pre) :
        Persisted(backend, last.pre)[k].backup_path \notin DOMAIN last.pre.files}

\* C6 as stated: with a manifest of N entries of which exactly one has its
\* backup file missing, restore_all_backups returns restored_count = N - 1 and
\* one failure naming that path, and the persisted manifest keeps its N entries
C6_OneMissingBackupOneFailure ==
    (/\ last.op = "restore_all_backups"
     /\ Cardinality(MissingBackups) = 1)
    => (/\ last.ok
        /\ last.val.restored_count = Cardinality(DOMAIN Persisted(backend, last.pre)) - 1
        /\ Len(last.val.failed_restorations) = 1
        /\ last.val.failed_restorations[1] \in MissingBackups
        /\ Persisted(backend, fs) = Persisted(backend, last.pre))

\* C7: restore_all_backups attempts every manifest entry, so restored_count
\* plus the number of failures is the number of entries and every failure
\* names an entry; the persisted manifest is emptied if no restoration failed
\* and is otherwise left with every entry
C7_RestoreAllCountsAndManifest ==
    last.op = "restore_all_backups"
    => (/\ last.ok
        /\ last.val.restored_count + Len(last.val.failed_restorations)
               = Cardinality(DOMAIN Persisted(backend, last.pre))
        /\ \A i \in 1..Len(last.val.failed_restorations) :
              last.val.failed_restorations[i] \in DOMAIN Persisted(backend, last.pre)
        /\ IF last.val.failed_restorations = <<>>
           THEN DOMAIN Persisted(backend, fs) = {}
           ELSE Persisted(backend, fs) = Persisted(backend, last.pre))

\* of two entries the first in iteration order failed and the second was restored
C7_Witness ==
    /\ last.op = "restore_all_backups"
    /\ Len(last.args.order) = 2
    /\ last.val.failed_restorations = <<last.args.order[1]>>
    /\ last.val.restored_count = 1
    /\ DOMAIN Persisted(backend, fs) = {HomeA, HomeB}

\* the status the specification assigns to a declaration in filesystem f
SpecifiedStatus(f, operation) ==
    IF ~HasEntity(f, operation.target_path) THEN "Missing"
    ELSE IF operation.target_path \notin DOMAIN f.symlinks THEN "Conflict"
    ELSE IF ~HasEntity(f, operation.source_path) THEN "Broken"
    ELSE IF f.symlinks[operation.target_path] = operation.source_path THEN "Valid"
    ELSE "InvalidTarget"

\* C8 as stated: get_single_symlink_status succeeds and returns Missing for an
\* absent target, Conflict for a target that is not a symlink, Broken for a
\* symlink whose declared source is absent, Valid for a symlink to the existing
\* declared source and InvalidTarget for a symlink elsewhere whose declared
\* source exists
C8_StatusClassification ==
    last.op = "get_single_symlink_status"
    => (/\ last.ok
        /\ last.val.status = SpecifiedStatus(last.pre, last.args.operation)
        /\ fs = last.pre)

\* the answer the specification assigns to check_conflict(source, target) in f
SpecifiedConflict(f, source_path, target_path) ==
    IF ~HasEntity(f, target_path) THEN None
    ELSE IF target_path \in DOMAIN f.symlinks
         THEN IF f.symlinks[target_path] = source_path THEN None
              ELSE Some(ConflictInfo(target_path, source_path, TRUE,
                                     Some(f.symlinks[target_path])))
         ELSE Some(ConflictInfo(target_path, source_path, FALSE, None))

\* C9 as stated: check_conflict returns None exactly when the target is absent
\* or a symlink whose value is the source, and otherwise the ConflictInfo of
\* what is at the target; and a create_symlinks run straight after a
\* successful one (here: of declarations of distinct targets, none of which
\* had a conflict) finds no conflict and mutates nothing
C9_ConflictDetectionAndRerun ==
    /\ last.op = "check_conflict"
       => (/\ last.ok
           /\ last.val = SpecifiedConflict(last.pre, last.args.operation.source_path,
                                           last.args.operation.target_path))
    /\ (/\ last.op = "create_symlinks"
        /\ last.ok
        /\ DistinctTargets(last.args.operations)
        /\ ConflictsBefore = <<>>)
       => (/\ check_conflicts(backend, fs, last.args.operations).val = <<>>
           /\ create_symlinks(backend, fs, now, PromptState(<<>>), last.args.operations,
                              last.args.interactive).fs = fs)

\* the status of the i-th declaration of the last call when the call started
StatusBefore(i) ==
    get_single_symlink_status(backend, last.pre, last.args.operations[i]).val.status

\* the declarations remove_symlinks reaches: those before the first Conflict
Reached ==
    {i \in 1..Len(last.args.operations) : \A j \in 1..i : StatusBefore(j) # "Conflict"}

\* the targets remove_symlinks is to remove: the reached ones whose status is
\* neither Missing nor Conflict
ToRemove ==
    {last.args.operations[i].target_path : i \in {j \in Reached : StatusBefore(j) # "Missing"}}

DecisionFor(t) ==
    IF \E k \in 1..Len(last.decisions) : last.decisions[k][1] = t
    THEN last.decisions[CHOOSE k \in 1..Len(last.decisions) : last.decisions[k][1] = t][2]
    ELSE "none"

LinkedToSource(f, operation) ==
    /\ operation.target_path \in DOMAIN f.symlinks
    /\ f.symlinks[operation.target_path] = operation.source_path

\* what repair_symlinks is to have done for a declaration that had status
\* when the call started
Repaired(operation, status) ==
    CASE status = "Valid" ->
           EntityAt(fs, operation.target_path) = EntityAt(last.pre, operation.target_path)
      [] status \in {"Missing", "Broken", "InvalidTarget"} -> LinkedToSource(fs, operation)
      [] status = "Conflict" ->
           (/\ last.ok
            /\ operation.target_path \in DOMAIN last.pre.files)
           => IF DecisionFor(operation.target_path) \in {"Backup", "Overwrite"}
              THEN LinkedToSource(fs, operation)
              ELSE EntityAt(fs, operation.target_path)
                       = EntityAt(last.pre, operation.target_path)

\* C11 as stated: repair_symlinks, for declarations of distinct targets, leaves
\* a Valid target untouched, gives a Missing target a symlink to the declared
\* source, removes and recreates a Broken or InvalidTarget symlink so that it
\* points to the declared source, and after the resolution of a Conflict on a
\* plain file creates the symlink if and only if the decision was Backup or
\* Overwrite; this for the first declaration, and for every declaration when
\* the call succeeds
C11_RepairTransitions ==
    (last.op = "repair_symlinks" /\ DistinctTargets(last.args.operations))
    => \A i \in 1..Len(last.args.operations) :
          (i = 1 \/ last.ok) => Repaired(last.args.operations[i], StatusBefore(i))

\* the manifest entry the last call's path had before the call
EntryBefore == Persisted(backend, last.pre)[last.args.original_path]

HadEntry == last.args.original_path \in DOMAIN Persisted(backend, last.pre)

\* every entry of another path is in the persisted manifest as it was
OthersUnchanged ==
    /\ DOMAIN Persisted(backend, fs) \ {last.args.original_path}
         = DOMAIN Persisted(backend, last.pre) \ {last.args.original_path}
    /\ \A q \in DOMAIN Persisted(backend, fs) \ {last.args.original_path} :
          Persisted(backend, fs)[q] = Persisted(backend, last.pre)[q]

\* C12: after remove_backup_entry(p) succeeds on a manifest that holds an entry
\* for p, the persisted manifest has no entry for p, nothing is left at that
\* entry's backup path, every other entry is unchanged, and get_backup_entry(p)
\* returns None.
C12_RemoveBackupEntry ==
    (last.op = "remove_backup_entry" /\ last.ok /\ HadEntry)
    => /\ last.args.original_path \notin DOMAIN Persisted(backend, fs)
       /\ ~HasEntity(fs, EntryBefore.backup_path)
       /\ OthersUnchanged
       /\ get_backup_entry(backend, fs, last.args.original_path) = Ok(fs, None)

C12_Witness ==
    /\ last.op = "remove_backup_entry" /\ last.ok /\ HadEntry
    /\ EntryBefore.backup_path \in DOMAIN last.pre.files
    /\ DOMAIN Persisted(backend, fs) # {}

\* the last call's path holds the entity its manifest entry recorded
RestoredEntity ==
    IF EntryBefore.file_type.kind = "Symlink"
    THEN /\ last.args.original_path \in DOMAIN fs.symlinks
         /\ fs.symlinks[last.args.original_path] = EntryBefore.file_type.target
         /\ last.args.original_path \notin DOMAIN fs.files
    ELSE /\ last.args.original_path \in DOMAIN fs.files
         /\ EntryBefore.backup_path \in DOMAIN last.pre.files
         /\ fs.files[last.args.original_path] = last.pre.files[EntryBefore.backup_path]
         /\ last.args.original_path \notin DOMAIN fs.symlinks

\* C13 as stated: restore_specific_backup(path) fails with the not-found error
\* and leaves the filesystem as it was when the manifest has no entry for path;
\* when it has one and the call succeeds, path holds the backed-up entity (the
\* backup's content, or a symlink with the recorded value), the manifest has no
\* entry for path and nothing is left at the entry's backup path.
C13_RestoreSpecificBackup ==
    last.op = "restore_specific_backup"
    => /\ ~HadEntry => (~last.ok /\ last.val = NoBackupFound /\ fs = last.pre)
       /\ (HadEntry /\ last.ok)
            => /\ RestoredEntity
               /\ last.args.original_path \notin DOMAIN Persisted(backend, fs)
               /\ ~HasEntity(fs, EntryBefore.backup_path)

\* the index of the first declaration of target t
FirstIndexOf(operations, t) ==
    CHOOSE i \in 1..Len(operations) :
        /\ operations[i].target_path = t
        /\ \A j \in 1..(i - 1) : operations[j].target_path # t

\* the targets the last call's declarations name twice, with different sources,
\* and that held nothing when the call began
SharedAbsentTargets ==
    {t \in TargetsOf(last.args.operations) :
        /\ ~HasEntity(last.pre, t)
        /\ \E i, j \in 1..Len(last.args.operations) :
              /\ last.args.operations[i].target_path = t
              /\ last.args.operations[j].target_path = t
              /\ last.args.operations[i].source_path # last.args.operations[j].source_path}

\* C14 as stated: when two declarations of one create_symlinks call share a
\* target that was absent and name different sources, the target ends as a
\* symlink to the source of the declaration processed last.
C14_SharedTargetLastWins ==
    (last.op = "create_symlinks" /\ last.ok)
    => \A t \in SharedAbsentTargets :
          /\ t \in DOMAIN fs.symlinks
          /\ fs.symlinks[t]
               = last.args.operations[LastIndexOf(last.args.operations, t)].source_path

\* C14 amended: both declarations are processed (no deduplication), and the
\* target ends as a symlink to the source of the declaration processed first:
\* always when the call returns Ok, and after a failed call the target holds
\* either nothing or that same symlink.
C14_SharedTargetFirstWins ==
    last.op = "create_symlinks"
    => \A t \in SharedAbsentTargets :
          /\ last.ok => t \in DOMAIN fs.symlinks
          /\ HasEntity(fs, t)
               => /\ t \in DOMAIN fs.symlinks
                  /\ fs.symlinks[t]
                       = last.args.operations[FirstIndexOf(last.args.operations, t)].source_path
                  /\ t \notin DOMAIN fs.files /\ t \notin fs.directories

C14_Witness ==
    /\ last.op = "create_symlinks" /\ last.ok
    /\ HomeA \in SharedAbsentTargets
    /\ HomeA \in DOMAIN fs.symlinks

\* the last create_symlinks call answered its batch prompt with "Skip All"
SkippedAll ==
    /\ last.op = "create_symlinks" /\ last.args.interactive
    /\ last.args.queue # <<>> /\ last.args.queue[1] = 1
    /\ ConflictsBefore # <<>>

\* the targets whose conflicts the last call resolved with Skip and nothing else
SkippedTargets ==
    IF SkippedAll
    THEN {ConflictsBefore[i].target_path : i \in 1..Len(ConflictsBefore)}
    ELSE {t \in TargetsOf(last.args.operations) :
            /\ \E k \in 1..Len(last.decisions) : last.decisions[k] = <<t, "Skip">>
            /\ ~Decided(t)}

\* neither a manifest entry nor a backup file of this instant was written for t
NothingBackedUp(t) ==
    /\ EntityAt(fs, BackupPath(t, now)) = EntityAt(last.pre, BackupPath(t, now))
    /\ \/ EntityAt(fs, manifest_path) = EntityAt(last.pre, manifest_path)
       \/ /\ (t \in DOMAIN Persisted(backend, fs))
                = (t \in DOMAIN Persisted(backend, last.pre))
          /\ t \in DOMAIN Persisted(backend, fs)
               => Persisted(backend, fs)[t] = Persisted(backend, last.pre)[t]

\* C15: a conflict resolved with Skip causes no mutation.  resolve_conflict with
\* Skip returns None and leaves the filesystem as it was; in create_symlinks (and
\* repair_symlinks) a target skipped per item or through "Skip All" is exactly
\* what it was and gets neither a backup file nor a manifest entry; and a
\* create_symlinks call that skipped a conflict and returned Ok has linked every
\* non-conflicting declaration to its source (declarations of distinct targets).
C15_SkipMutatesNothing ==
    /\ (last.op = "resolve_conflict" /\ last.args.resolution = "Skip")
         => (last.ok /\ last.val = None /\ fs = last.pre)
    /\ last.op \in {"create_symlinks", "repair_symlinks"}
         => \A t \in SkippedTargets :
               EntityAt(fs, t) = EntityAt(last.pre, t) /\ NothingBackedUp(t)
    /\ (/\ last.op = "create_symlinks" /\ last.ok
        /\ DistinctTargets(last.args.operations)
        /\ SkippedTargets # {})
         => \A i \in 1..Len(last.args.operations) :
               ~IsSome(check_conflict(backend, last.pre,
                                      last.args.operations[i].source_path,
                                      last.args.operations[i].target_path).val)
               => LinkedToSource(fs, last.args.operations[i])

C15_Witness ==
    /\ last.op = "create_symlinks" /\ last.ok
    /\ DistinctTargets(last.args.operations)
    /\ HomeA \in SkippedTargets
    /\ HomeB \in DOMAIN fs.symlinks /\ ~HasEntity(last.pre, HomeB)

\* the last call is resolve_conflict(conflict, Backup)
BackupResolution == last.op = "resolve_conflict" /\ last.args.resolution = "Backup"

\* the content the conflicting target gave when read before the call: its own
\* if it was a plain file, that of the file it pointed to if it was a symlink
OriginalContent == Real_read_to_string(last.pre, last.args.conflict.target_path)

\* a backup file with the target's original content is at path p
BackupHolds(p) ==
    /\ p \in DOMAIN fs.files
    /\ OriginalContent.ok /\ fs.files[p] = OriginalContent.val

\* a create_symlinks call for the declaration of the resolved conflict, made in
\* the state the resolution left
CreateAfterBackup ==
    create_symlinks(backend, fs, now, PromptState(<<>>),
                    <<SymlinkOperation(last.args.conflict.source_path,
                                       last.args.conflict.target_path)>>, FALSE)

\* C16 as stated: after resolve_conflict(conflict, Backup) returns Some(entry)
\* nothing is at the target, a backup with the original content is at
\* entry.backup_path, the persisted manifest maps the target to entry, and a
\* following create_symlinks for the declaration leaves the target a symlink to
\* the declared source; whether or not the call succeeds, the original is gone
\* only if the backup copy holds its content.
C16_BackupResolution ==
    BackupResolution
    => /\ last.ok
         => /\ IsSome(last.val)
            /\ ~HasEntity(fs, last.args.conflict.target_path)
            /\ BackupHolds(last.val.some.backup_path)
            /\ last.args.conflict.target_path \in DOMAIN Persisted(backend, fs)
            /\ Persisted(backend, fs)[last.args.conflict.target_path] = last.val.some
            /\ CreateAfterBackup.ok
            /\ LinkedToSource(CreateAfterBackup.fs,
                              SymlinkOperation(last.args.conflict.source_path,
                                               last.args.conflict.target_path))
       /\ Removed(last.args.conflict.target_path)
            => BackupHolds(BackupPath(last.args.conflict.target_path, now))

\* the sources of the declarations from the i-th on that are not on disk, in
\* declaration order
RECURSIVE MissingFrom(_, _, _)
MissingFrom(f, operations, i) ==
    IF i > Len(operations) THEN <<>>
    ELSE (IF HasEntity(f, operations[i].source_path) THEN <<>>
          ELSE <<operations[i].source_path>>)
         \o MissingFrom(f, operations, i + 1)

\* C17: validate_sources returns, in declaration order, exactly the declared
\* sources that do not exist, and changes nothing; when at least one declared
\* source is missing, install_config fails with the configuration error with
\* the filesystem as it was, no prompt issued and no conflict resolved.
C17_ValidateSourcesGate ==
    /\ last.op = "validate_sources"
         => /\ last.ok /\ fs = last.pre
            /\ last.val = MissingFrom(last.pre, last.args.operations, 1)
    /\ (last.op = "install_config"
        /\ MissingFrom(last.pre, last.args.operations, 1) # <<>>)
         => /\ ~last.ok /\ last.val = MissingSourceFiles
            /\ fs = last.pre
            /\ last.asked = 0 /\ last.decisions = <<>>

\* install_config was refused for a missing source although a declaration had a
\* conflict and an answer was waiting in the prompt
C17_Witness ==
    /\ last.op = "install_config" /\ ~last.ok
    /\ MissingFrom(last.pre, last.args.operations, 1) # <<>>
    /\ ConflictsBefore # <<>>
    /\ last.args.queue # <<>>

\* C18 as stated: after any sequence of completed resolve_conflict,
\* remove_backup_entry, cleanup_old_backups, restore_specific_backup and
\* restore_all_backups calls, whether they returned Ok or an error, every entry
\* of the persisted manifest has a backup file present at its backup_path.
C18_ManifestEntriesHaveBackupFiles ==
    \A p \in DOMAIN Persisted(backend, fs) :
        Persisted(backend, fs)[p].backup_path \in DOMAIN fs.files

\* the cutoff of the last cleanup_old_backups call
Cutoff == last.args.now - last.args.days * TicksPerDay

\* the entries the last cleanup_old_backups call found older than its cutoff
OldEntries ==
    {p \in DOMAIN Persisted(backend, last.pre) :
        Persisted(backend, last.pre)[p].created_at < Cutoff}

\* the keys cleanup_old_backups set out to remove, in its iteration order
OldInOrder == to_remove([entries |-> Persisted(backend, last.pre)], last.args.order, Cutoff)

\* the filesystem the call started from without the backup files of the first
\* k keys it set out to remove
WithoutFirst(k) ==
    [last.pre EXCEPT !.files =
        MapRetain(@, DOMAIN @ \ {Persisted(backend, last.pre)[OldInOrder[j]].backup_path :
                                    j \in 1..k})]

\* C19 as stated: after cleanup_old_backups(days) succeeds the persisted
\* manifest holds exactly the entries whose created_at is not older than
\* now - days, each unchanged and with its backup file as it was, and the
\* backup file of every removed entry is gone; if deleting a backup file fails
\* the error is returned at once: the files of the keys before it are deleted,
\* nothing else has changed and no later key is processed.
C19_CleanupOldBackups ==
    last.op = "cleanup_old_backups"
    => /\ last.ok
         => /\ DOMAIN Persisted(backend, fs) = DOMAIN Persisted(backend, last.pre) \ OldEntries
            /\ \A p \in DOMAIN Persisted(backend, fs) :
                  /\ Persisted(backend, fs)[p] = Persisted(backend, last.pre)[p]
                  /\ EntityAt(fs, Persisted(backend, fs)[p].backup_path)
                       = EntityAt(last.pre, Persisted(backend, fs)[p].backup_path)
            /\ \A p \in OldEntries :
                  ~HasEntity(fs, Persisted(backend, last.pre)[p].backup_path)
       /\ ~last.ok
         => \E k \in 1..Len(OldInOrder) :
               /\ fs = WithoutFirst(k - 1)
               /\ ~remove_file(backend, fs,
                               Persisted(backend, last.pre)[OldInOrder[k]].backup_path).ok

\* the last call is a successful repair_symlinks on declarations of pairwise
\* distinct targets, whose sources exist and none of which had status Conflict
RepairableCall ==
    /\ last.op = "repair_symlinks" /\ last.ok
    /\ DistinctTargets(last.args.operations)
    /\ \A i \in 1..Len(last.args.operations) :
          /\ HasEntity(last.pre, last.args.operations[i].source_path)
          /\ StatusBefore(i) # "Conflict"

\* a second repair_symlinks on the same declarations, in the state the first left
RepairAgain ==
    repair_symlinks(backend, fs, now, PromptState(<<>>), last.args.operations)

\* C20: repair is idempotent and convergent.  For declarations with pairwise
\* distinct targets, existing sources and no target in Conflict status, one
\* successful repair_symlinks leaves every declaration Valid, and a second
\* repair_symlinks succeeds without changing the filesystem, asking anything
\* or backing anything up.
C20_RepairIdempotent ==
    RepairableCall
    => /\ \A i \in 1..Len(last.args.operations) :
             /\ get_single_symlink_status(backend, fs, last.args.operations[i]).val.status
                  = "Valid"
             /\ SpecifiedStatus(fs, last.args.operations[i]) = "Valid"
       /\ RepairAgain = ROk(fs, PromptState(<<>>), <<>>)

\* a repair that created one symlink and redirected another
C20_Witness ==
    /\ RepairableCall
    /\ \E i, j \in 1..Len(last.args.operations) :
          /\ StatusBefore(i) = "Missing"
          /\ StatusBefore(j) = "InvalidTarget"

ReadOnlyCalls ==
    {"get_single_symlink_status", "get_symlink_status", "get_symlink_status_with_changes",
     "check_conflict", "check_conflicts", "validate_sources"}

ListReports == {"get_symlink_status", "get_symlink_status_with_changes"}

\* C21: get_single_symlink_status, get_symlink_status,
\* get_symlink_status_with_changes, check_conflict, check_conflicts and
\* validate_sources succeed and leave the whole filesystem, the backup manifest
\* included, as it was; a declaration whose target is absent is reported Missing.
C21_ReadOnlyOperations ==
    last.op \in ReadOnlyCalls
    => /\ last.ok
       /\ fs = last.pre
       /\ (last.op = "get_single_symlink_status"
           /\ ~HasEntity(last.pre, last.args.operation.target_path))
            => last.val.status = "Missing"
       /\ last.op \in ListReports
            => /\ Len(last.val) = Len(last.args.operations)
               /\ \A i \in 1..Len(last.args.operations) :
                     ~HasEntity(last.pre, last.args.operations[i].target_path)
                     => /\ last.val[i].status = "Missing"
                        /\ last.val[i].target_path = last.args.operations[i].target_path

\* a report over two declarations found an absent target
C21_Witness ==
    /\ last.op \in ListReports /\ last.ok
    /\ Len(last.args.operations) = 2
    /\ ~HasEntity(fs, last.args.operations[2].target_path)
    /\ last.val[2].status = "Missing"

\* what get_single_symlink_status says of the i-th declaration of the last call
SingleStatus(i) == get_single_symlink_status(backend, last.pre, last.args.operations[i]).val

\* the collaborator's answer for the source of the i-th declaration, which lies
\* under the repository root
AnswerFor(i) ==
    last.args.repository[SubSeq(last.args.operations[i].source_path, Len(repo_path) + 1,
                                Len(last.args.operations[i].source_path))]

\* C22: get_symlink_status_with_changes succeeds whatever the collaborator
\* answers and reports, for each declaration in order, what
\* get_single_symlink_status reports, except that the status of a Valid
\* declaration is Modified exactly when the collaborator answers that its
\* source is modified; a failing query leaves it Valid, and no other status is
\* changed.
C22_StatusWithChanges ==
    last.op = "get_symlink_status_with_changes"
    => /\ last.ok
       /\ Len(last.val) = Len(last.args.operations)
       /\ \A i \in 1..Len(last.args.operations) :
             IF SingleStatus(i).status = "Valid"
             THEN /\ last.val[i].status
                       = (IF AnswerFor(i) = "modified" THEN "Modified" ELSE "Valid")
                  /\ [last.val[i] EXCEPT !.status = "Valid"] = SingleStatus(i)
             ELSE last.val[i] = SingleStatus(i)

\* a report with a Modified declaration, and a failed query on a Valid one
C22_Witness ==
    /\ last.op = "get_symlink_status_with_changes" /\ last.ok
    /\ Len(last.args.operations) = 2
    /\ SingleStatus(1).status = "Valid" /\ SingleStatus(2).status = "Valid"
    /\ AnswerFor(1) = "error" /\ last.val[1].status = "Valid"
    /\ AnswerFor(2) = "modified" /\ last.val[2].status = "Modified"

(***************************************************************************)
(* C23.  Batch resolution is ordered and uniform.                          *)
(***************************************************************************)
\* the k-th smallest element of a set of indices
KthOf(S, k) == CHOOSE i \in S : Cardinality({j \in S : j < i}) = k - 1

\* the declarations of the last call that were in conflict when it started
ConflictingIndices ==
    {i \in 1..Len(last.args.operations) :
        IsSome(check_conflict(backend, last.pre, last.args.operations[i].source_path,
                              last.args.operations[i].target_path).val)}

\* the decisions of the last call that chose Backup
BackupDecisions == {k \in 1..Len(last.decisions) : last.decisions[k][2] = "Backup"}

\* the resolution a batch choice stands for
BatchPolicy(choice) == IF choice = 2 THEN "Backup" ELSE "Overwrite"

\* the returned backup entries are those of the Backup decisions, in their order
EntriesFollowDecisions ==
    /\ Len(last.val) = Cardinality(BackupDecisions)
    /\ \A k \in 1..Len(last.val) :
          last.val[k].original_path = last.decisions[KthOf(BackupDecisions, k)][1]

\* C23: check_conflicts returns one conflict for each conflicting declaration,
\* in declaration order.  resolve_all_conflicts_interactive on that list prompts
\* once for the batch; SkipAll resolves nothing and changes nothing;
\* BackupAll and OverwriteAll hand that one resolution to resolve_conflict for
\* the conflicts in list order (all of them when the call succeeds, a prefix
\* when it fails); Individual prompts once per conflict in list order and
\* hands each answer to resolve_conflict; the backup entries returned are
\* those of the Backup decisions in that same order, and OverwriteAll
\* returns none.
C23_BatchOrderedUniform ==
    /\ (last.op = "check_conflicts" /\ last.ok) =>
          /\ Len(last.val) = Cardinality(ConflictingIndices)
          /\ \A k \in 1..Len(last.val) :
                last.val[k] =
                  check_conflict(backend, last.pre,
                      last.args.operations[KthOf(ConflictingIndices, k)].source_path,
                      last.args.operations[KthOf(ConflictingIndices, k)].target_path
                  ).val.some
    /\ (last.op = "resolve_all_conflicts_interactive" /\ last.args.queue # <<>>
          /\ last.args.conflicts # <<>>) =>
          /\ Len(last.decisions) <= Len(last.args.conflicts)
          /\ last.ok /\ last.args.queue[1] # 1 =>
                Len(last.decisions) = Len(last.args.conflicts)
          /\ \A k \in 1..Len(last.decisions) :
                last.decisions[k][1] = last.args.conflicts[k].target_path
          /\ last.args.queue[1] = 1 =>
                last.ok /\ last.decisions = <<>> /\ last.val = <<>>
                  /\ fs = last.pre /\ last.asked = 1
          /\ last.args.queue[1] \in {2, 3} =>
                /\ last.asked = 1
                /\ \A k \in 1..Len(last.decisions) :
                      last.decisions[k][2] = BatchPolicy(last.args.queue[1])
          /\ last.args.queue[1] = 0 =>
                /\ last.asked >= 1 + Len(last.decisions)
                /\ last.asked <= 1 + Len(last.args.conflicts)
                /\ last.ok => last.asked = 1 + Len(last.args.conflicts)
                /\ \A k \in 1..Len(last.decisions) :
                      last.decisions[k][2] = ItemResolution(last.args.queue[k + 1])
          /\ last.ok /\ last.args.queue[1] \in {0, 2} => EntriesFollowDecisions
          /\ last.ok /\ last.args.queue[1] = 3 => last.val = <<>>

\* BackupAll over two conflicts on different targets returned two entries
C23_Witness ==
    /\ last.op = "resolve_all_conflicts_interactive"
    /\ last.ok
    /\ last.args.queue = <<2>>
    /\ Len(last.val) = 2
    /\ last.val[1].original_path # last.val[2].original_path

(***************************************************************************)
(* C24.  backup_file.                                                      *)
(***************************************************************************)
\* the file_type the entry of a backup of this path is to carry
SpecifiedFileType(f, file_path) ==
    IF file_path \in DOMAIN f.symlinks THEN Symlink(f.symlinks[file_path]) ELSE File

\* C24 as stated: backup_file(path) leaves the entity at path and the persisted
\* manifest as they were; when it succeeds a file is at
\* <backup root>/<basename>_<timestamp> and the entry returned has that
\* backup_path, original_path = path and file_type Symlink{target} with the
\* link's value when path was a symlink, File otherwise, never Directory.
C24_BackupFile ==
    last.op = "backup_file"
    => /\ EntityAt(fs, last.args.file_path) = EntityAt(last.pre, last.args.file_path)
       /\ Persisted(backend, fs) = Persisted(backend, last.pre)
       /\ last.ok
            => /\ last.val.backup_path = BackupPath(last.args.file_path, last.args.now)
               /\ last.val.backup_path \in DOMAIN fs.files
               /\ last.val.original_path = last.args.file_path
               /\ last.val.file_type = SpecifiedFileType(last.pre, last.args.file_path)
               /\ last.val.file_type.kind # "Directory"

(***************************************************************************)
(* C25.  resolve_conflict(conflict, Overwrite).                            *)
(***************************************************************************)
\* the paths of f at or below the backup root
BackupArea(f) ==
    {p \in (DOMAIN f.files) \cup f.directories \cup (DOMAIN f.symlinks) :
        p = dott_backup_path \/ IsPrefix(dott_backup_path, p)}

\* nothing is at path t or below it
Cleared(f, t) ==
    /\ ~HasEntity(f, t)
    /\ \A p \in (DOMAIN f.files) \cup f.directories \cup (DOMAIN f.symlinks) :
          ~IsPrefix(t, p)

\* C25 as stated: after resolve_conflict(conflict, Overwrite) succeeds nothing
\* is at the target or below it, whether a plain file, a symlink or a
\* directory was there, the call returned None, and the backup directory and
\* the persisted manifest are as they were.
C25_OverwriteRemoves ==
    (last.op = "resolve_conflict" /\ last.args.resolution = "Overwrite" /\ last.ok)
    => /\ Cleared(fs, last.args.conflict.target_path)
       /\ last.val = None
       /\ BackupArea(fs) = BackupArea(last.pre)
       /\ Persisted(backend, fs) = Persisted(backend, last.pre)

(***************************************************************************)
(* C26.  Backup paths are unique per entry.                                *)
(***************************************************************************)
\* C26 as stated: in every state reached by Backup resolutions and the other
\* backup operations, two entries of the persisted manifest with different
\* original_path have different backup_path.
C26_BackupPathsUnique ==
    \A p, q \in DOMAIN Persisted(backend, fs) :
        p # q => Persisted(backend, fs)[p].backup_path # Persisted(backend, fs)[q].backup_path

(***************************************************************************)
(* C27.  A failed restoration keeps what is at the path.                   *)
(***************************************************************************)
\* C27 as stated: when restore_specific_backup(path) returns an error, and when
\* restore_all_backups lists a path among its failed restorations, what was at
\* that path before the call is there unchanged after it.
C27_FailedRestoreKeepsOccupant ==
    /\ (last.op = "restore_specific_backup" /\ ~last.ok)
         => EntityAt(fs, last.args.original_path)
              = EntityAt(last.pre, last.args.original_path)
    /\ (last.op = "restore_all_backups" /\ last.ok)
         => \A k \in 1..Len(last.val.failed_restorations) :
               EntityAt(fs, last.val.failed_restorations[k])
                 = EntityAt(last.pre, last.val.failed_restorations[k])

(***************************************************************************)
(* C28.  In create_symlinks resolution precedes creation.                  *)
(***************************************************************************)
\* the resolution phase of the last create_symlinks call, taken on its own
ResolutionOf ==
    resolve_or_fail(backend, last.pre, now, PromptState(last.args.queue),
                    ConflictsBefore, last.args.interactive)

\* the interactive resolution phase of the last create_symlinks call failed
ResolutionFailed ==
    /\ last.op = "create_symlinks"
    /\ last.args.interactive
    /\ ConflictsBefore # <<>>
    /\ ~ResolutionOf.ok

\* the decisions carried out in full before the error: all of them when a
\* prompt failed, all but the last when the last one failed
ResolvedBeforeError ==
    IF last.val = UserCancelled THEN 1..Len(last.decisions)
    ELSE 1..(Len(last.decisions) - 1)

\* the symlinks of f are symlinks of g
NoNewSymlink(f, g) ==
    \A t \in DOMAIN f.symlinks : t \in DOMAIN g.symlinks /\ g.symlinks[t] = f.symlinks[t]

\* C28: when the resolution phase of an interactive create_symlinks ends in an
\* error (Abort at the batch prompt or at an item, a failing prompt, a failing
\* filesystem call), the call returns that error and the filesystem is as the
\* resolution steps left it: no symlink has been created, also not for a
\* declaration without conflict, and what the removal of an item resolved by
\* Backup or Overwrite before the error took away is still away.
C28_ResolutionBeforeCreation ==
    ResolutionFailed
    => /\ ~last.ok
       /\ last.val = ResolutionOf.val
       /\ NoNewSymlink(fs, last.pre)
       /\ fs = ResolutionOf.fs
       /\ \A k \in ResolvedBeforeError :
             (/\ last.decisions[k][2] \in {"Backup", "Overwrite"}
              /\ ~HasEntity(remove_existing(backend, last.pre, last.decisions[k][1]).fs,
                            last.decisions[k][1]))
             => ~HasEntity(fs, last.decisions[k][1])

\* Individual mode: the first conflict was cleared by Overwrite, the second
\* item, on another target, was aborted
C28_Witness ==
    /\ ResolutionFailed
    /\ Len(last.decisions) = 2
    /\ last.decisions[1][2] = "Overwrite"
    /\ last.decisions[2][2] = "Abort"
    /\ last.decisions[1][1] # last.decisions[2][1]
    /\ HasEntity(last.pre, last.decisions[1][1])
    /\ ~HasEntity(fs, last.decisions[1][1])

(***************************************************************************)
(* C29.  The status classifier and the conflict detector agree.            *)
(***************************************************************************)
\* the classifier's and the detector's answers for a declaration in the
\* current filesystem
StatusNow(operation) == get_single_symlink_status(backend, fs, operation)

ConflictNow(operation) ==
    check_conflict(backend, fs, operation.source_path, operation.target_path)

\* C29: in every reachable filesystem and for every declaration, both calls
\* succeed; a status of Conflict or InvalidTarget comes with a reported
\* conflict; no reported conflict comes with a status of Missing, Valid or
\* Broken; and a status of Conflict comes with a conflict whose
\* existing_is_symlink is false, which is what the Conflict branch of
\* repair_symlinks resolves.
C29_ClassifierAgreesWithDetector ==
    \A operation \in Declarations :
        /\ StatusNow(operation).ok
        /\ ConflictNow(operation).ok
        /\ StatusNow(operation).val.status \in {"Conflict", "InvalidTarget"}
             => IsSome(ConflictNow(operation).val)
        /\ ~IsSome(ConflictNow(operation).val)
             => StatusNow(operation).val.status \in {"Missing", "Valid", "Broken"}
        /\ StatusNow(operation).val.status = "Conflict"
             => /\ IsSome(ConflictNow(operation).val)
                /\ ~ConflictNow(operation).val.some.existing_is_symlink

\* get_single_symlink_status has just reported InvalidTarget for one
\* declaration while another declaration is in Conflict
C29_Witness ==
    /\ last.op = "get_single_symlink_status"
    /\ last.ok
    /\ last.val.status = "InvalidTarget"
    /\ IsSome(ConflictNow(last.args.operation).val)
    /\ \E operation \in Declarations : StatusNow(operation).val.status = "Conflict"

(***************************************************************************)
(* C30.  Restores and the backup files of the entries they remove.         *)
(***************************************************************************)
\* the entries the last call removed from the persisted manifest
EntriesRemoved ==
    (DOMAIN Persisted(backend, last.pre)) \ (DOMAIN Persisted(backend, fs))

\* C30 as stated: after a successful restore_specific_backup, and after a
\* restore_all_backups without failed restorations, no backup file of an
\* entry the call removed from the persisted manifest is left on disk.
C30_RestoreDeletesBackupFiles ==
    (last.op \in {"restore_specific_backup", "restore_all_backups"} /\ last.ok)
    => \A p \in EntriesRemoved :
          Persisted(backend, last.pre)[p].backup_path \notin DOMAIN fs.files

\* the restore_specific_backup half of C30
C30_RestoreSpecificDeletesBackupFile ==
    (last.op = "restore_specific_backup" /\ last.ok)
    => \A p \in EntriesRemoved :
          Persisted(backend, last.pre)[p].backup_path \notin DOMAIN fs.files

====
